---- MODULE Spec2Model ----
(***************************************************************************)
(* Model of the Ookla automation server: the coverage-plot handlers of     *)
(* server.js (POST /api/automate, POST /api/automate/stream) and the ROM   *)
(* handlers (POST /api/rom/automate, POST /api/rom/automate/stream) with   *)
(* the service functions executeRomAutomation / executeRomAutomationStream.*)
(* One request is followed from its arrival to its terminal response.      *)
(* Every awaited browser operation is a step whose outcome the environment *)
(* chooses.  Progress values are kept in thirds (ProgressScale) so that    *)
(* 75 + (k/n)*20 is exact for n in 1..3.                                   *)
(***************************************************************************)
EXTENDS Integers, Sequences, FiniteSets, TLC

VARIABLES
    endpoint,          \* which handler serves the request
    request,           \* req.body: address, carriers, coverageTypes
    pc,                \* position of the handler
    browserVar,        \* the handler's `browser` variable holds a browser
    launches,          \* number of chromium.launch() calls
    openSessions,      \* browsers launched and not closed
    logins,            \* number of sign-in submissions
    closeCalls,        \* number of browser.close() calls
    closeThrows,       \* number of browser.close() calls that threw
    steps,             \* operations invoked so far, in order
    screenshots,       \* the handler's `screenshots` array (view tags)
    sidebarCollapsed,  \* the handler's sidebarCollapsed flag
    viewPos,           \* index of the view being processed
    nameIdx,           \* index into possibleNames (combined view)
    dropdownOpenFailed,\* flag of the combined-view name loop
    selected,          \* views whose selectView returned true
    attempt,           \* attempt counter of the retry loop being run
    failure,           \* what made the run leave the success path
    written,           \* events passed to res.write, in order
    delivered,         \* events that reached the subscriber
    dropped,           \* events written after the subscriber was gone
    connected,         \* the subscriber is still attached
    ended,             \* number of res.end() calls
    responses,         \* JSON responses sent by a synchronous handler
    args,              \* arguments of a helper function that is being applied
    result,            \* what the applications of that function have returned
    jobs,              \* handler invocations in progress, each with its locals
    browsers           \* the browsers that are open in the process

vars == << endpoint, request, pc, browserVar, launches, openSessions, logins,
           closeCalls, closeThrows, steps, screenshots, sidebarCollapsed,
           viewPos, nameIdx, dropdownOpenFailed, selected, attempt, failure,
           written, delivered, dropped, connected, ended, responses,
           args, result, jobs, browsers >>

----------------------------------------------------------------------------
(* Requests *)

Endpoints == {"automate", "automate_stream", "rom_automate", "rom_stream"}

IsStream(e) == e \in {"automate_stream", "rom_stream"}
IsRom(e) == e \in {"rom_automate", "rom_stream"}

\* address: absent, "", "   ", a proper string, a truthy non-string (42)
AddressKinds == {"missing", "empty", "blank", "text", "nonstring"}

\* carriers: absent, [], a list of known carriers, a list with an unknown one
CarrierKinds == {"missing", "empty", "valid", "invalid"}

\* names a coverageTypes array may contain; "Other" is an unrecognised name
CoverageNames == {"Indoor", "Outdoor", "Indoor & Outdoor", "Other"}

\* one array for each set of names: the handlers only ask includes(name)
NameOrder == << "Indoor", "Outdoor", "Indoor & Outdoor", "Other" >>
ArrayOf(S) == SelectSeq(NameOrder, LAMBDA n : n \in S)

\* coverageTypes: absent, or an array of names
CoverageTypeValues ==
    {[present |-> FALSE, names |-> << >>]} \cup
    {[present |-> TRUE, names |-> ArrayOf(S)] : S \in SUBSET CoverageNames}

\* arrays in any order and with repeated names
MaxTypes == 3
CoverageTypeArrays ==
    UNION {[1..n -> CoverageNames] : n \in 0..MaxTypes}

----------------------------------------------------------------------------
(* Validation *)

\* a check that only looks for the empty string
AddressMissing_OnlyEmpty(address) == address = "empty"

\* server.js: if (!address) -- undefined and "" are falsy, "   " and 42 are not
AddressMissing(address) == address \in {"missing", "empty"}

\* romAutomation.js validateRequest: the list of errors it collects
validateRequest(address, carriers) ==
    (IF address \in {"missing", "empty", "nonstring", "blank"}
        THEN << "Address is required and must be a non-empty string" >>
        ELSE << >>)
    \o
    (IF carriers \in {"missing", "empty"}
        THEN << "Carriers is required and must be a non-empty array" >>
        ELSE IF carriers = "invalid"
                THEN << "Invalid carriers" >>
                ELSE << >>)

isValid(address, carriers) == Len(validateRequest(address, carriers)) = 0

\* the request passes the validation of the handler that serves it
Accepted(e, req) ==
    IF IsRom(e) THEN isValid(req.address, req.carriers)
                ELSE ~AddressMissing(req.address)

----------------------------------------------------------------------------
(* Views *)

AllViews == << "INDOOR", "OUTDOOR", "OUTDOOR_INDOOR" >>

CoverageName(tag) ==
    CASE tag = "INDOOR" -> "Indoor"
      [] tag = "OUTDOOR" -> "Outdoor"
      [] OTHER -> "Indoor & Outdoor"

\* coverageTypes?.includes(name)
Has(req, tag) ==
    /\ req.coverageTypes.present
    /\ \E i \in 1..Len(req.coverageTypes.names) :
          req.coverageTypes.names[i] = CoverageName(tag)

\* a handler that walks through the array and captures what each entry names
RequestedViews_InRequestOrder(e, req) ==
    IF IsRom(e) THEN << "INDOOR", "OUTDOOR" >>
    ELSE LET known == SelectSeq(req.coverageTypes.names,
                                LAMBDA n : n # "Other")
         IN  [i \in 1..Len(known) |->
                 CASE known[i] = "Indoor" -> "INDOOR"
                   [] known[i] = "Outdoor" -> "OUTDOOR"
                   [] OTHER -> "OUTDOOR_INDOOR"]

\* the views a run goes through, in the order the handler visits them;
\* the ROM service always does Indoor then Outdoor
RequestedViews(e, req) ==
    IF IsRom(e) THEN << "INDOOR", "OUTDOOR" >>
                ELSE SelectSeq(AllViews, LAMBDA t : Has(req, t))

\* const possibleNames = [...] of the combined view
PossibleNames == 6

----------------------------------------------------------------------------
(* Progress events *)

ProgressScale == 3
Absent == 0 - 1

\* the progress value sent before each step, in percent
StepProgress(e, step) ==
    IF IsRom(e)
    THEN CASE step = "launch" -> 5
           [] step = "context" -> 10
           [] step = "login" -> 15
           [] step = "dayview" -> 22
           [] step = "address" -> 28
           [] step = "netprov" -> 35
           [] step = "carriers" -> 45
           [] step = "lte" -> 55
           [] step = "rsrp" -> 65
           [] step = "views" -> 70
           [] step = "INDOOR" -> 75
           [] step = "OUTDOOR" -> 85
           [] step = "complete" -> 100
           [] OTHER -> 0
    ELSE CASE step = "launch" -> 0
           [] step = "login_nav" -> 5
           [] step = "login_fill" -> 10
           [] step = "login" -> 15
           [] step = "login_ok" -> 20
           [] step = "dayview" -> 22
           [] step = "address" -> 28
           [] step = "netprov" -> 38
           [] step = "carriers" -> 48
           [] step = "lte" -> 58
           [] step = "rsrp" -> 68
           [] step = "views" -> 75
           [] step = "finalize" -> 98
           [] step = "complete" -> 100
           [] OTHER -> 0

\* the quotient taken the wrong way round: totalScreenshots / screenshotCount
CaptureProgress_Swapped(k, n) ==
    75 * ProgressScale + (n * 20 * ProgressScale) \div k

\* 75 + (screenshotCount / totalScreenshots) * 20, in thirds of a percent
CaptureProgress(k, n) == 75 * ProgressScale + (k * 20 * ProgressScale) \div n

\* the progress an error event carries
ErrorProgress == 0

Event(progress, step, status, final, success, shots) ==
    [progress |-> progress, step |-> step, status |-> status,
     final |-> final, success |-> success, shots |-> shots,
     count |-> IF success = "true" THEN Len(shots) ELSE Absent]

\* an event written without its status
sendProgress_NoStatus(progress, step, status) ==
    Event(progress, step, "absent", FALSE, "absent", << >>)

\* server.js sendProgress(res, progress, step, status = 'in_progress')
sendProgress(progress, step, status) ==
    Event(progress, step, status, FALSE, "absent", << >>)

\* romAutomation.js emit(progress, step): status 'processing'
emit(progress, step) ==
    Event(progress, step, "processing", FALSE, "absent", << >>)

\* the event announcing a step, as a list: empty on a synchronous endpoint
Announce(e, step) ==
    IF ~IsStream(e) THEN << >>
    ELSE IF IsRom(e)
         THEN << emit(StepProgress(e, step) * ProgressScale, step) >>
         ELSE << sendProgress(StepProgress(e, step) * ProgressScale, step,
                              "in_progress") >>

----------------------------------------------------------------------------
(* Initial state: a request has arrived at one of the four handlers *)

Requests ==
    [address : AddressKinds, carriers : CarrierKinds,
     coverageTypes : CoverageTypeValues]

\* the state of a handler that has just been entered
InitRun ==
    /\ pc = "validate"
    /\ browserVar = FALSE
    /\ launches = 0
    /\ openSessions = 0
    /\ logins = 0
    /\ closeCalls = 0
    /\ closeThrows = 0
    /\ steps = << >>
    /\ screenshots = << >>
    /\ sidebarCollapsed = FALSE
    /\ viewPos = 1
    /\ nameIdx = 1
    /\ dropdownOpenFailed = FALSE
    /\ selected = {}
    /\ attempt = 1
    /\ failure = "none"
    /\ written = << >>
    /\ delivered = << >>
    /\ dropped = 0
    /\ connected = TRUE
    /\ ended = 0
    /\ responses = << >>

\* no helper function is being applied on its own
NoCall == args = << >> /\ result = << >>

\* no other handler invocation is in progress
NoJobs == jobs = << >> /\ browsers = {}

Init ==
    /\ endpoint \in Endpoints
    /\ request \in Requests
    \* the ROM handlers destructure only address and carriers
    /\ IsRom(endpoint) => ~request.coverageTypes.present
    /\ InitRun
    /\ NoCall
    /\ NoJobs

\* a coverage request whose coverageTypes is any array of names
InitArrays ==
    /\ endpoint \in {"automate", "automate_stream"}
    /\ request \in [address : {"text"}, carriers : {"valid"},
                     coverageTypes : {[present |-> TRUE, names |-> a] :
                                         a \in CoverageTypeArrays}]
    /\ InitRun
    /\ NoCall
    /\ NoJobs

reqVars == << endpoint, request >>
auxVars == << args, result, jobs, browsers >>
sessVars == << browserVar, launches, openSessions, logins, closeCalls, closeThrows >>
viewVars == << screenshots, sidebarCollapsed, viewPos, nameIdx, dropdownOpenFailed,
              selected, attempt >>
outVars == << written, delivered, dropped, ended, responses >>

----------------------------------------------------------------------------
(* Output primitives *)

\* res.write of a list of events: a write to a connection the subscriber
\* has left is discarded by the HTTP layer and returns normally
Write(evs) ==
    /\ written' = written \o evs
    /\ delivered' = IF connected THEN delivered \o evs ELSE delivered
    /\ dropped' = IF connected THEN dropped ELSE dropped + Len(evs)

\* res.status(status).json({success, screenshots, count})
Json(status, success, shots) ==
    [status |-> status, success |-> success, shots |-> shots,
     count |-> IF success THEN Len(shots) ELSE Absent]

\* a streaming handler that writes its last events and leaves the stream open
Reply_NeverEnds(evs, json) ==
    IF IsStream(endpoint)
    THEN /\ Write(evs)
         /\ UNCHANGED << ended, responses >>
    ELSE /\ responses' = Append(responses, json)
         /\ UNCHANGED << written, delivered, dropped, ended >>

\* a streaming handler writes its last events and ends the stream,
\* a synchronous handler sends its JSON response
Reply(evs, json) ==
    IF IsStream(endpoint)
    THEN /\ Write(evs)
         /\ ended' = ended + 1
         /\ UNCHANGED responses
    ELSE /\ responses' = Append(responses, json)
         /\ UNCHANGED << written, delivered, dropped, ended >>

\* sendProgress calls of a step that does not answer the request
Progress(evs) ==
    /\ Write(IF IsStream(endpoint) THEN evs ELSE << >>)
    /\ UNCHANGED << ended, responses >>

Did(op, view) == steps' = Append(steps, [op |-> op, view |-> view])

\* browser.close(): returns, or throws and leaves the process running
Close(ok) ==
    /\ closeCalls' = closeCalls + 1
    /\ closeThrows' = IF ok THEN closeThrows ELSE closeThrows + 1
    /\ openSessions' = IF ok /\ openSessions > 0 THEN openSessions - 1
                       ELSE openSessions

----------------------------------------------------------------------------
(* The handlers, step by step *)

\* validation of the request body, before anything else
Validate ==
    /\ pc = "validate"
    /\ IF Accepted(endpoint, request)
       THEN /\ pc' = "launch"
            /\ UNCHANGED << failure, outVars >>
       ELSE /\ pc' = "done"
            /\ failure' = "validation"
            /\ Reply(IF IsRom(endpoint)
                     THEN << Event(0, "Validation failed", "error", TRUE,
                                   "false", << >>) >>
                     ELSE << sendProgress(0, "Error: Address is required",
                                          "error") >>,
                     Json(400, FALSE, << >>))
    /\ UNCHANGED << reqVars, auxVars, sessVars, viewVars, steps, connected >>

\* chromium.launch()
Launch ==
    /\ pc = "launch"
    /\ Did("launch", "-")
    /\ Progress(Announce(endpoint, "launch"))
    /\ launches' = launches + 1
    /\ \E ok \in BOOLEAN :
          IF ok
          THEN /\ openSessions' = openSessions + 1
               \* server.js assigns `browser` at once, the ROM service only
               \* when createBrowserContext has returned
               /\ browserVar' = ~IsRom(endpoint)
               /\ pc' = "context"
               /\ UNCHANGED failure
          ELSE /\ pc' = "catch"
               /\ failure' = "session"
               /\ UNCHANGED << openSessions, browserVar >>
    /\ UNCHANGED << reqVars, auxVars, logins, closeCalls, closeThrows, viewVars, connected >>

\* browser.newContext(), context.addInitScript(), context.newPage()
NewContext ==
    /\ pc = "context"
    /\ Did("context", "-")
    /\ \E ok \in BOOLEAN :
          IF ok
          THEN /\ browserVar' = TRUE
               /\ pc' = "login"
               /\ Progress(IF IsRom(endpoint)
                           THEN Announce(endpoint, "context") ELSE << >>)
               /\ UNCHANGED failure
          ELSE /\ pc' = "catch"
               /\ failure' = "session"
               /\ Progress(<< >>)
               /\ UNCHANGED browserVar
    /\ UNCHANGED << reqVars, auxVars, launches, openSessions, logins, closeCalls,
                    closeThrows, viewVars, connected >>

\* what the sign-in can do: the navigation or the form filling throws, the
\* page stays on the login URL, or the dashboard is reached
LoginOutcomes == {"nav_throw", "fill_throw", "rejected", "accepted"}

\* the events the coverage stream has sent when the sign-in ends that way
LoginEvents(outcome) ==
    Announce(endpoint, "login_nav")
    \o (IF outcome = "nav_throw" THEN << >>
        ELSE Announce(endpoint, "login_fill"))
    \o (IF outcome \in {"nav_throw", "fill_throw"} THEN << >>
        ELSE Announce(endpoint, "login"))
    \o (IF outcome = "accepted" THEN Announce(endpoint, "login_ok")
        ELSE << >>)

\* a handler that does not look at the URL after the submit
AfterLogin_Unchecked(e, outcome) ==
    IF outcome \in {"accepted", "rejected"} THEN "dayview" ELSE "catch"

\* where the handler goes after the sign-in: the coverage handlers test the
\* URL themselves, loginToOokla throws when the page is still on /login
AfterLogin(e, outcome) ==
    CASE outcome = "accepted" -> "dayview"
      [] outcome = "rejected" /\ ~IsRom(e) -> "login_failed"
      [] OTHER -> "catch"

Login ==
    /\ pc = "login"
    /\ Did("login", "-")
    /\ logins' = logins + 1
    /\ \E outcome \in LoginOutcomes :
          /\ Progress(IF IsRom(endpoint) THEN Announce(endpoint, "login")
                      ELSE LoginEvents(outcome))
          /\ pc' = AfterLogin(endpoint, outcome)
          /\ failure' = CASE outcome = "accepted" -> failure
                          [] outcome = "rejected" -> "auth"
                          [] OTHER -> "step"
    /\ UNCHANGED << reqVars, auxVars, browserVar, launches, openSessions, closeCalls,
                    closeThrows, viewVars, connected >>

\* the coverage handlers on a rejected sign-in: close the browser, answer
LoginFailed ==
    /\ pc = "login_failed"
    /\ Did("close", "-")
    /\ \E ok \in BOOLEAN :
          /\ Close(ok)
          /\ IF ok
             THEN /\ pc' = "done"
                  /\ Reply(<< sendProgress(15 * ProgressScale, "Login failed",
                                           "error") >>,
                           Json(401, FALSE, << >>))
             ELSE /\ pc' = "catch"
                  /\ UNCHANGED outVars
    /\ UNCHANGED << reqVars, auxVars, browserVar, launches, logins, viewVars, failure,
                    connected >>

\* a step that swallows its own errors: day view, carriers, RSRP
BestEffortStep(name, next) ==
    /\ pc = name
    /\ Did(name, "-")
    /\ Progress(Announce(endpoint, name))
    /\ pc' = next
    /\ UNCHANGED << reqVars, auxVars, sessVars, viewVars, failure, connected >>

\* a step whose error reaches the handler's catch at once: address entry
MandatoryStep(name, next) ==
    /\ pc = name
    /\ Did(name, "-")
    /\ Progress(Announce(endpoint, name))
    /\ \E ok \in BOOLEAN :
          \* typing a non-string address throws (for..of over a number)
          IF ok /\ ~(name = "address" /\ request.address = "nonstring")
          THEN pc' = next /\ UNCHANGED failure
          ELSE pc' = "catch" /\ failure' = "step"
    /\ UNCHANGED << reqVars, auxVars, sessVars, viewVars, connected >>

\* for (let attempt = 1; attempt <= 3; attempt++)
MaxAttempts == 3

\* a retry that starts the whole run again
RetryPc_Relaunch(name, a) == IF a < MaxAttempts THEN "launch" ELSE "catch"

\* where a failed attempt of a panel leads: the loop goes round within the
\* step, and after the last attempt the step throws
RetryPc(name, a) == IF a < MaxAttempts THEN name ELSE "catch"

\* a loop over the attempts that has no bound: a failed attempt is always
\* followed by another one
OpenPanel_NoBound(name, next) ==
    /\ pc = name
    /\ IF attempt = 1
       THEN Did(name, "-") /\ Progress(Announce(endpoint, name))
       ELSE UNCHANGED << steps, outVars >>
    /\ \E opened \in BOOLEAN :
          IF opened
          THEN /\ pc' = next
               /\ attempt' = 1
               /\ UNCHANGED failure
          ELSE /\ pc' = name
               /\ attempt' = IF attempt = 2 THEN 3 ELSE 2
               /\ UNCHANGED failure
    /\ UNCHANGED << reqVars, auxVars, sessVars, screenshots, sidebarCollapsed, viewPos,
                    nameIdx, dropdownOpenFailed, selected, connected >>

\* one attempt at opening a required panel (Network Provider, LTE)
OpenPanel(name, next) ==
    /\ pc = name
    /\ IF attempt = 1
       THEN Did(name, "-") /\ Progress(Announce(endpoint, name))
       ELSE UNCHANGED << steps, outVars >>
    /\ \E opened \in BOOLEAN :
          IF opened
          THEN /\ pc' = next
               /\ attempt' = 1
               /\ UNCHANGED failure
          ELSE /\ pc' = RetryPc(name, attempt)
               /\ attempt' = IF attempt < MaxAttempts THEN attempt + 1 ELSE 1
               /\ failure' = IF attempt < MaxAttempts THEN failure ELSE "step"
    /\ UNCHANGED << reqVars, auxVars, sessVars, screenshots, sidebarCollapsed, viewPos,
                    nameIdx, dropdownOpenFailed, selected, connected >>

\* a handler that goes from the day view straight to the provider panel
SelectDayView_SkipsAddress == BestEffortStep("dayview", "netprov")

SelectDayView == BestEffortStep("dayview", "address")
EnterAddress == MandatoryStep("address", "netprov")
OpenNetworkProvider == OpenPanel("netprov", "carriers")
ConfigureCarriers == BestEffortStep("carriers", "lte")
OpenLTESection == OpenPanel("lte", "rsrp")
SelectRSRP == BestEffortStep("rsrp", "views")

----------------------------------------------------------------------------
(* View captures *)

Views == RequestedViews(endpoint, request)
CurrentView == Views[viewPos]

\* screenshots array and flags are set up once RSRP is done
PrepareScreenshots ==
    /\ pc = "views"
    /\ Progress(Announce(endpoint, "views"))
    /\ screenshots' = << >>
    /\ sidebarCollapsed' = FALSE
    /\ viewPos' = 1
    /\ nameIdx' = 1
    /\ dropdownOpenFailed' = FALSE
    /\ pc' = IF Len(Views) = 0 THEN "finish" ELSE "select"
    /\ UNCHANGED << reqVars, auxVars, sessVars, selected, attempt, steps, failure, connected >>

\* a counter that advances only when a capture has been taken
CaptureEvent_CountsCaptured ==
    IF ~IsStream(endpoint) THEN << >>
    ELSE IF IsRom(endpoint) THEN Announce(endpoint, CurrentView)
    ELSE << sendProgress(CaptureProgress(Len(screenshots) + 1, Len(Views)),
                         CurrentView, "in_progress") >>

\* the event sent before a view is selected
CaptureEvent ==
    IF ~IsStream(endpoint) THEN << >>
    ELSE IF IsRom(endpoint) THEN Announce(endpoint, CurrentView)
    ELSE << sendProgress(CaptureProgress(viewPos, Len(Views)), CurrentView,
                         "in_progress") >>

\* the handler moves on to the next requested view, or to the end
NextView ==
    /\ viewPos' = viewPos + 1
    /\ nameIdx' = 1
    /\ dropdownOpenFailed' = FALSE
    /\ pc' = IF viewPos + 1 > Len(Views) THEN "finish" ELSE "select"

\* the ROM service prepares before every capture, the coverage handlers
\* only while their sidebarCollapsed flag is false
AfterSelect ==
    IF IsRom(endpoint) \/ ~sidebarCollapsed THEN "prepare" ELSE "capture"

\* if (await selectView(page, 'Indoor View')) / 'Outdoor View'
\* one attempt of selectView; the call returns true at the first attempt
\* that succeeds and false when the last one has failed
SelectView ==
    /\ pc = "select"
    /\ CurrentView \in {"INDOOR", "OUTDOOR"}
    /\ IF attempt = 1
       THEN Did("selectView", CurrentView) /\ Progress(CaptureEvent)
       ELSE UNCHANGED << steps, outVars >>
    /\ \E ok \in BOOLEAN :
          IF ok
          THEN /\ selected' = selected \cup {CurrentView}
               /\ pc' = AfterSelect
               /\ attempt' = 1
               /\ UNCHANGED << viewPos, nameIdx, dropdownOpenFailed >>
          ELSE /\ UNCHANGED selected
               /\ IF attempt < MaxAttempts
                  THEN /\ attempt' = attempt + 1
                       /\ UNCHANGED << pc, viewPos, nameIdx, dropdownOpenFailed >>
                  ELSE /\ attempt' = 1
                       /\ NextView
    /\ UNCHANGED << reqVars, auxVars, sessVars, screenshots, sidebarCollapsed, failure,
                    connected >>

\* one turn of: for (const viewName of possibleNames) selectView(...)
SelectCombined ==
    /\ pc = "select"
    /\ CurrentView = "OUTDOOR_INDOOR"
    /\ IF attempt = 1
       THEN /\ Did("selectView", CurrentView)
            /\ Progress(IF nameIdx = 1 THEN CaptureEvent ELSE << >>)
       ELSE UNCHANGED << steps, outVars >>
    /\ \E ok \in BOOLEAN, canOpen \in BOOLEAN :
          IF ok
          THEN /\ selected' = selected \cup {CurrentView}
               /\ pc' = AfterSelect
               /\ attempt' = 1
               /\ UNCHANGED << viewPos, nameIdx, dropdownOpenFailed >>
          ELSE /\ UNCHANGED selected
               /\ IF attempt < MaxAttempts
                  THEN /\ attempt' = attempt + 1
                       /\ UNCHANGED << pc, viewPos, nameIdx, dropdownOpenFailed >>
                  ELSE /\ attempt' = 1
                       /\ IF (~dropdownOpenFailed /\ ~canOpen)
                             \/ nameIdx = PossibleNames
                          THEN NextView
                          ELSE /\ nameIdx' = nameIdx + 1
                               /\ dropdownOpenFailed' = TRUE
                               /\ UNCHANGED << viewPos, pc >>
    /\ UNCHANGED << reqVars, auxVars, sessVars, screenshots, sidebarCollapsed, failure,
                    connected >>

\* prepareForScreenshot(): zoom, collapse the sidebar, remove popups; each
\* part swallows its own errors
PrepareForScreenshot ==
    /\ pc = "prepare"
    /\ Did("prepare", CurrentView)
    /\ sidebarCollapsed' = IF IsRom(endpoint) THEN sidebarCollapsed ELSE TRUE
    /\ pc' = "capture"
    /\ UNCHANGED << reqVars, auxVars, sessVars, screenshots, viewPos, nameIdx,
                    dropdownOpenFailed, selected, attempt, failure, outVars,
                    connected >>

\* takeScreenshot() rethrows what page.screenshot throws, and no call site
\* catches it
TakeScreenshot ==
    /\ pc = "capture"
    /\ Did("takeScreenshot", CurrentView)
    /\ \E ok \in BOOLEAN :
          IF ok
          THEN /\ screenshots' = Append(screenshots, CurrentView)
               /\ IF viewPos < Len(Views)
                  THEN /\ pc' = "expand"
                       /\ UNCHANGED << viewPos, nameIdx, dropdownOpenFailed >>
                  ELSE NextView
               /\ UNCHANGED failure
          ELSE /\ pc' = "catch"
               /\ failure' = "capture"
               /\ UNCHANGED << screenshots, viewPos, nameIdx, dropdownOpenFailed >>
    /\ UNCHANGED << reqVars, auxVars, sessVars, sidebarCollapsed, selected, attempt,
                    outVars, connected >>

\* expandSidebar() before the next view is selected
ExpandSidebar ==
    /\ pc = "expand"
    /\ Did("expand", CurrentView)
    /\ sidebarCollapsed' = FALSE
    /\ NextView
    /\ UNCHANGED << reqVars, auxVars, sessVars, screenshots, selected, attempt, failure,
                    outVars, connected >>

----------------------------------------------------------------------------
(* End of the run *)

\* the events of a successful end
SuccessEvents ==
    IF IsRom(endpoint)
    THEN << Event(StepProgress(endpoint, "complete") * ProgressScale,
                  "Complete", "absent", TRUE, "true", screenshots) >>
    ELSE << sendProgress(StepProgress(endpoint, "complete") * ProgressScale,
                         "Complete!", "success"),
            Event(Absent, "absent", "absent", TRUE, "true", screenshots) >>

\* the events of the catch blocks: the ROM service sends one and rethrows,
\* the ROM route then sends its own
ErrorEvents ==
    IF IsRom(endpoint)
    THEN << Event(ErrorProgress, "Error", "absent", TRUE, "false", << >>),
            Event(ErrorProgress, "Error", "error", TRUE, "false", << >>) >>
    ELSE << sendProgress(ErrorProgress, "error.message", "error") >>

\* sendProgress(res, 98, 'Finalizing...'): the coverage stream only
FinalizeEvent == IF IsRom(endpoint) THEN << >> ELSE Announce(endpoint, "finalize")

\* await browser.close() on the success path, then the answer
Finish ==
    /\ pc = "finish"
    /\ Did("close", "-")
    /\ \E ok \in BOOLEAN :
          /\ Close(ok)
          /\ IF ok
             THEN /\ pc' = "done"
                  /\ browserVar' = IF IsRom(endpoint) THEN FALSE ELSE browserVar
                  /\ Reply(FinalizeEvent \o SuccessEvents,
                           Json(200, TRUE, screenshots))
                  /\ UNCHANGED failure
             ELSE /\ pc' = "catch"
                  /\ failure' = "close"
                  /\ Progress(FinalizeEvent)
                  /\ UNCHANGED browserVar
    /\ UNCHANGED << reqVars, auxVars, launches, logins, viewVars, connected >>

\* a catch block that answers without closing the browser
Catch_LeavesOpen ==
    /\ pc = "catch"
    /\ Reply(ErrorEvents, Json(500, FALSE, << >>))
    /\ pc' = "done"
    /\ UNCHANGED << reqVars, auxVars, browserVar, launches, logins, viewVars,
                    failure, connected, steps, closeCalls, closeThrows,
                    openSessions >>

\* catch (error): close the browser if the variable holds one, swallowing
\* what close throws, then answer with the error
Catch ==
    /\ pc = "catch"
    /\ IF browserVar
       THEN /\ Did("close", "-")
            /\ \E ok \in BOOLEAN : Close(ok)
       ELSE UNCHANGED << steps, closeCalls, closeThrows, openSessions >>
    /\ Reply(ErrorEvents, Json(500, FALSE, << >>))
    /\ pc' = "done"
    /\ UNCHANGED << reqVars, auxVars, browserVar, launches, logins, viewVars, failure,
                    connected >>

\* a handler that aborts the run when the connection closes
Disconnect_Cancels ==
    /\ IsStream(endpoint)
    /\ connected
    /\ pc \notin {"done", "validate"}
    /\ connected' = FALSE
    /\ pc' = "catch"
    /\ UNCHANGED << reqVars, auxVars, sessVars, viewVars, steps, failure, outVars >>

\* the subscriber of a stream goes away; no handler listens for it
Disconnect ==
    /\ IsStream(endpoint)
    /\ connected
    /\ pc # "done"
    /\ connected' = FALSE
    /\ UNCHANGED << reqVars, auxVars, pc, sessVars, viewVars, steps, failure, outVars >>

Next ==
    \/ Validate
    \/ Launch
    \/ NewContext
    \/ Login
    \/ LoginFailed
    \/ SelectDayView
    \/ EnterAddress
    \/ OpenNetworkProvider
    \/ ConfigureCarriers
    \/ OpenLTESection
    \/ SelectRSRP
    \/ PrepareScreenshots
    \/ SelectView
    \/ SelectCombined
    \/ PrepareForScreenshot
    \/ TakeScreenshot
    \/ ExpandSidebar
    \/ Finish
    \/ Catch
    \/ Disconnect

Spec == Init /\ [][Next]_vars

SpecArrays == InitArrays /\ [][Next]_vars

\* every awaited operation returns or times out, so a handler that can
\* take a step eventually takes one
SpecLive == Spec /\ WF_vars(Next)

\* the variables of a handler run, which the component specifications
\* leave alone
runVars == << endpoint, request, pc, browserVar, launches, openSessions,
              logins, closeCalls, closeThrows, steps, screenshots,
              sidebarCollapsed, viewPos, nameIdx, dropdownOpenFailed, selected,
              attempt, failure, written, delivered, dropped, connected, ended,
              responses >>

\* a handler at rest, for the specifications of single functions
Quiet ==
    /\ endpoint = "automate"
    /\ request = [address |-> "text", carriers |-> "valid",
                  coverageTypes |-> [present |-> FALSE, names |-> << >>]]
    /\ InitRun

----------------------------------------------------------------------------
(* Artifact file names *)

\* characters an address is made of: letters, digits and others
Letters == {"a", "Z"}
Digits == {"5"}
Others == {"_", " ", ","}
Alphabet == Letters \cup Digits \cup Others

\* [a-zA-Z0-9]
IsAlnum(c) == c \in Letters \cup Digits

\* .substring(0, 50)
SubstringLimit == 50

MaxAddressLen == 52

Min(a, b) == IF a < b THEN a ELSE b

\* a sanitisation that does not cut the address
sanitizedAddress_Uncut(address) ==
    [i \in 1..Len(address) |-> IF IsAlnum(address[i]) THEN address[i] ELSE "_"]

\* address.replace(/[^a-zA-Z0-9]/g, '_').substring(0, 50)
sanitizedAddress(address) ==
    LET replaced == [i \in 1..Len(address) |->
                        IF IsAlnum(address[i]) THEN address[i] ELSE "_"]
    IN  SubSeq(replaced, 1, Min(SubstringLimit, Len(replaced)))

\* new Date().toISOString(), as its parts
IsoTimes ==
    {<< "2025", "-", "01", "-", "02", "T", "03", ":", "04", ":", "05", ".", "678", "Z" >>,
     << "2025", "-", "01", "-", "02", "T", "03", ":", "04", ":", "06", ".", "000", "Z" >>}

\* .replace(/[:.]/g, '-')
timestamp(iso) ==
    [i \in 1..Len(iso) |-> IF iso[i] \in {":", "."} THEN "-" ELSE iso[i]]

\* the viewType each caller passes to takeScreenshot
ViewType(prefix, view) ==
    IF prefix = "rom" THEN << "rom", "_", view >> ELSE << view >>

\* the filename template of takeScreenshot: server.js puts ookla_ in front,
\* the ROM service passes rom_INDOOR / rom_OUTDOOR to the helper
filename(prefix, view, sanitized, ts) ==
    (IF prefix = "rom" THEN << >> ELSE << "ookla", "_" >>)
    \o ViewType(prefix, view) \o << "_" >> \o sanitized \o << "_" >> \o ts
    \o << ".png" >>

\* addresses of every length up to MaxAddressLen: a pattern of one or two
\* characters, repeated
Addresses ==
    {[i \in 1..n |-> IF i % 2 = 1 THEN u[1] ELSE u[2]] :
        u \in Alphabet \X Alphabet, n \in 1..MaxAddressLen}

\* the views a job captures, in the order of its capture blocks
ViewLists ==
    {SelectSeq(AllViews, LAMBDA v : v \in S) : S \in SUBSET {"INDOOR", "OUTDOOR", "OUTDOOR_INDOOR"}}

\* a job is about to name its artifacts: address, clock and views are fixed
InitNames ==
    /\ Quiet
    /\ NoJobs
    /\ \E a \in Addresses, iso \in IsoTimes, prefix \in {"ookla", "rom"} :
          \E views \in (IF prefix = "rom" THEN {<< "INDOOR", "OUTDOOR" >>,
                                                << "INDOOR" >>, << "OUTDOOR" >>}
                                          ELSE ViewLists) :
              args = [address |-> a, iso |-> iso, prefix |-> prefix,
                      views |-> views]
    /\ result = << >>

\* takeScreenshot(page, viewType, sanitizedAddress, timestamp) for the next
\* view of the job
NameArtifact ==
    /\ Len(result) < Len(args.views)
    /\ result' = Append(result,
                        filename(args.prefix, args.views[Len(result) + 1],
                                 sanitizedAddress(args.address),
                                 timestamp(args.iso)))
    /\ UNCHANGED << runVars, args, jobs, browsers >>

NextNames == NameArtifact

SpecNames == InitNames /\ [][NextNames]_vars

----------------------------------------------------------------------------
(* The two ROM service functions, each as the list of things it does *)

\* one await of a helper: its name, whether it returns or throws, and the
\* tag of the artifact it yields ("" when it yields none)
Call(name, ok) == [kind |-> "call", name |-> name, ok |-> ok, shot |-> ""]
Take(tag, ok) ==
    [kind |-> "call", name |-> "takeScreenshot", ok |-> ok, shot |-> tag]

\* one emit(progress, step) of the streaming function
Emit(progress, step) ==
    [kind |-> "emit", name |-> step, ok |-> TRUE, shot |-> "",
     ev |-> emit(progress * ProgressScale, step)]

\* the part of a try block that runs: up to the first await that throws
FirstThrow(script) ==
    IF \E i \in 1..Len(script) : ~script[i].ok
    THEN CHOOSE i \in 1..Len(script) :
             ~script[i].ok /\ \A j \in 1..(i - 1) : script[j].ok
    ELSE 0

Ran(script) ==
    IF FirstThrow(script) = 0 THEN script
    ELSE SubSeq(script, 1, FirstThrow(script))

CallsOf(script) == SelectSeq(script, LAMBDA x : x.kind = "call")
NamesOf(script) == [i \in 1..Len(script) |-> script[i].name]

\* screenshots.push(screenshot) after each takeScreenshot that returned
ShotsOf(script) ==
    LET taken == SelectSeq(script, LAMBDA x : x.shot # "" /\ x.ok)
    IN  [i \in 1..Len(taken) |-> taken[i].shot]

\* if (browser) { try { await browser.close() } catch (e) {} } in a catch
\* block: browser is set once createBrowserContext has returned, and is
\* null again only after a close that returned
CatchCalls(ran, o) ==
    IF ran[1].ok THEN << "browser.close" >> ELSE << >>

\* a function that threw has returned nothing
NoResult == [success |-> FALSE, screenshots |-> << >>, count |-> Absent]

\* a function that has not been called yet
Pending ==
    [calls |-> << >>, returned |-> NoResult, thrown |-> "nothing",
     events |-> << >>]

\* what the helpers do in one run: which of them throw, which selections
\* return true
RomOutcomes ==
    [create : BOOLEAN, login : BOOLEAN, address : BOOLEAN, netprov : BOOLEAN,
     lte : BOOLEAN, selIndoor : BOOLEAN, capIndoor : BOOLEAN,
     selOutdoor : BOOLEAN, capOutdoor : BOOLEAN, close : BOOLEAN,
     closeInCatch : BOOLEAN]

\* executeRomAutomation({ address, carriers })
executeRomAutomation(o) ==
    LET script ==
            << Call("createBrowserContext", o.create),
               Call("loginToOokla", o.login),
               Call("selectDayView", TRUE),
               Call("enterAddress", o.address),
               Call("openNetworkProvider", o.netprov),
               Call("configureCarriers", TRUE),
               Call("openLTESection", o.lte),
               Call("selectRSRP", TRUE),
               Call("selectView Indoor", TRUE) >>
            \o (IF o.selIndoor
                THEN << Call("prepareForScreenshot", TRUE),
                        Take("rom_INDOOR", o.capIndoor),
                        Call("expandSidebar", TRUE) >>
                ELSE << >>)
            \o << Call("selectView Outdoor", TRUE) >>
            \o (IF o.selOutdoor
                THEN << Call("prepareForScreenshot", TRUE),
                        Take("rom_OUTDOOR", o.capOutdoor) >>
                ELSE << >>)
            \o << Call("browser.close", o.close) >>
        ran == Ran(script)
        thrown == FirstThrow(script) # 0
    IN  [calls |-> NamesOf(ran) \o (IF thrown THEN CatchCalls(ran, o) ELSE << >>),
         returned |-> IF thrown THEN NoResult
                      ELSE [success |-> TRUE, screenshots |-> ShotsOf(ran),
                            count |-> Len(ShotsOf(ran))],
         thrown |-> IF thrown THEN ran[Len(ran)].name ELSE "nothing",
         events |-> << >>]

\* a streaming function that leaves the sidebar collapsed after Indoor
executeRomAutomationStream_NoExpand(o) ==
    LET script ==
            << Emit(5, "Initializing..."),
               Call("createBrowserContext", o.create),
               Emit(10, "Opening browser..."),
               Emit(15, "Logging in..."),
               Call("loginToOokla", o.login),
               Emit(22, "Selecting day view..."),
               Call("selectDayView", TRUE),
               Emit(28, "Entering address..."),
               Call("enterAddress", o.address),
               Emit(35, "Opening network provider..."),
               Call("openNetworkProvider", o.netprov),
               Emit(45, "Configuring carriers..."),
               Call("configureCarriers", TRUE),
               Emit(55, "Opening LTE section..."),
               Call("openLTESection", o.lte),
               Emit(65, "Selecting RSRP..."),
               Call("selectRSRP", TRUE),
               Emit(70, "Preparing screenshots..."),
               Emit(75, "Capturing indoor view..."),
               Call("selectView Indoor", TRUE) >>
            \o (IF o.selIndoor
                THEN << Call("prepareForScreenshot", TRUE),
                        Take("rom_INDOOR", o.capIndoor) >>
                ELSE << >>)
            \o << Emit(85, "Capturing outdoor view..."),
                  Call("selectView Outdoor", TRUE) >>
            \o (IF o.selOutdoor
                THEN << Call("prepareForScreenshot", TRUE),
                        Take("rom_OUTDOOR", o.capOutdoor) >>
                ELSE << >>)
            \o << Call("browser.close", o.close) >>
        ran == Ran(script)
        calls == CallsOf(ran)
        thrown == FirstThrow(script) # 0
        emitted == SelectSeq(ran, LAMBDA x : x.kind = "emit")
        progress == [i \in 1..Len(emitted) |-> emitted[i].ev]
    IN  [calls |-> NamesOf(calls)
                   \o (IF thrown THEN CatchCalls(calls, o) ELSE << >>),
         returned |-> IF thrown THEN NoResult
                      ELSE [success |-> TRUE, screenshots |-> ShotsOf(ran),
                            count |-> Len(ShotsOf(ran))],
         thrown |-> IF thrown THEN ran[Len(ran)].name ELSE "nothing",
         events |-> progress \o
                    (IF thrown
                     THEN << Event(0, "Error", "absent", TRUE, "false", << >>) >>
                     ELSE << Event(100 * ProgressScale, "Complete", "absent",
                                   TRUE, "true", ShotsOf(ran)) >>)]

\* executeRomAutomationStream({ address, carriers }, sendProgress)
executeRomAutomationStream(o) ==
    LET script ==
            << Emit(5, "Initializing..."),
               Call("createBrowserContext", o.create),
               Emit(10, "Opening browser..."),
               Emit(15, "Logging in..."),
               Call("loginToOokla", o.login),
               Emit(22, "Selecting day view..."),
               Call("selectDayView", TRUE),
               Emit(28, "Entering address..."),
               Call("enterAddress", o.address),
               Emit(35, "Opening network provider..."),
               Call("openNetworkProvider", o.netprov),
               Emit(45, "Configuring carriers..."),
               Call("configureCarriers", TRUE),
               Emit(55, "Opening LTE section..."),
               Call("openLTESection", o.lte),
               Emit(65, "Selecting RSRP..."),
               Call("selectRSRP", TRUE),
               Emit(70, "Preparing screenshots..."),
               Emit(75, "Capturing indoor view..."),
               Call("selectView Indoor", TRUE) >>
            \o (IF o.selIndoor
                THEN << Call("prepareForScreenshot", TRUE),
                        Take("rom_INDOOR", o.capIndoor),
                        Call("expandSidebar", TRUE) >>
                ELSE << >>)
            \o << Emit(85, "Capturing outdoor view..."),
                  Call("selectView Outdoor", TRUE) >>
            \o (IF o.selOutdoor
                THEN << Call("prepareForScreenshot", TRUE),
                        Take("rom_OUTDOOR", o.capOutdoor) >>
                ELSE << >>)
            \o << Call("browser.close", o.close) >>
        ran == Ran(script)
        calls == CallsOf(ran)
        thrown == FirstThrow(script) # 0
        emitted == SelectSeq(ran, LAMBDA x : x.kind = "emit")
        progress == [i \in 1..Len(emitted) |-> emitted[i].ev]
    IN  [calls |-> NamesOf(calls)
                   \o (IF thrown THEN CatchCalls(calls, o) ELSE << >>),
         returned |-> IF thrown THEN NoResult
                      ELSE [success |-> TRUE, screenshots |-> ShotsOf(ran),
                            count |-> Len(ShotsOf(ran))],
         thrown |-> IF thrown THEN ran[Len(ran)].name ELSE "nothing",
         events |-> progress \o
                    (IF thrown
                     THEN << Event(0, "Error", "absent", TRUE, "false", << >>) >>
                     ELSE << Event(100 * ProgressScale, "Complete", "absent",
                                   TRUE, "true", ShotsOf(ran)) >>)]

\* the same request is about to be served by both functions, the helpers
\* behaving the same way for both
InitServices ==
    /\ Quiet
    /\ NoJobs
    /\ args \in RomOutcomes
    /\ result = [ran |-> {}, sync |-> Pending, stream |-> Pending]

RunSync ==
    /\ "sync" \notin result.ran
    /\ result' = [result EXCEPT !.sync = executeRomAutomation(args),
                                !.ran = @ \cup {"sync"}]
    /\ UNCHANGED << runVars, args, jobs, browsers >>

RunStream ==
    /\ "stream" \notin result.ran
    /\ result' = [result EXCEPT !.stream = executeRomAutomationStream(args),
                                !.ran = @ \cup {"stream"}]
    /\ UNCHANGED << runVars, args, jobs, browsers >>

NextServices == RunSync \/ RunStream

SpecServices == InitServices /\ [][NextServices]_vars

----------------------------------------------------------------------------
(* Several requests being served at once.  Every invocation of a handler  *)
(* has its own locals (`let browser`, `const screenshots`); the process   *)
(* holds the browsers that are open.  Node runs the handlers interleaved  *)
(* at their awaits.                                                       *)

MaxJobs == 2
JobIds == 1..MaxJobs

\* artifacts one job captures at most (the ROM service: two)
MaxShots == 2

\* `let browser;` before chromium.launch() has returned
NoBrowser == 0

\* a close that acts on the browser launched last in the process
BrowserOf_Shared(j) == browsers.launched

\* the browser a handler closes: the one in its own `browser` variable
BrowserOf(j) == jobs[j].browser

InitJobs ==
    /\ Quiet
    /\ NoCall
    /\ jobs = << >>
    /\ browsers = [open |-> {}, launched |-> 0]

\* a request arrives: Express calls the handler, whatever else is running
Submit(j) ==
    /\ j = Len(jobs) + 1
    /\ j \in JobIds
    /\ jobs' = Append(jobs, [pc |-> "launch", browser |-> NoBrowser,
                             screenshots |-> << >>, response |-> "none",
                             returned |-> << >>])
    /\ UNCHANGED << runVars, args, result, browsers >>

\* browser = await chromium.launch(...)
JobLaunch(j) ==
    /\ j \in DOMAIN jobs
    /\ jobs[j].pc = "launch"
    /\ \E ok \in BOOLEAN :
          IF ok
          THEN /\ browsers' = [open |-> browsers.open \cup {browsers.launched + 1},
                              launched |-> browsers.launched + 1]
               /\ jobs' = [jobs EXCEPT ![j].browser = browsers.launched + 1,
                                       ![j].pc = "steps"]
          ELSE /\ jobs' = [jobs EXCEPT ![j].pc = "catch"]
               /\ UNCHANGED browsers
    /\ UNCHANGED << runVars, args, result >>

\* sign-in and the steps up to RSRP: they all return, or one throws
JobSteps(j) ==
    /\ j \in DOMAIN jobs
    /\ jobs[j].pc = "steps"
    /\ \E ok \in BOOLEAN :
          jobs' = [jobs EXCEPT ![j].pc = IF ok THEN "views" ELSE "catch"]
    /\ UNCHANGED << runVars, args, result, browsers >>

\* one view: screenshots.push(screenshot), or the capture throws, or the
\* views are over
JobCapture(j) ==
    /\ j \in DOMAIN jobs
    /\ jobs[j].pc = "views"
    /\ \/ /\ Len(jobs[j].screenshots) < MaxShots
          /\ jobs' = [jobs EXCEPT ![j].screenshots =
                                      Append(@, << j, Len(@) + 1 >>)]
       \/ jobs' = [jobs EXCEPT ![j].pc = "catch"]
       \/ jobs' = [jobs EXCEPT ![j].pc = "close"]
    /\ UNCHANGED << runVars, args, result, browsers >>

\* await browser.close(); res.json({ success: true, screenshots, ... })
JobClose(j) ==
    /\ j \in DOMAIN jobs
    /\ jobs[j].pc = "close"
    /\ \E ok \in BOOLEAN :
          IF ok
          THEN /\ browsers' = [browsers EXCEPT !.open = @ \ {BrowserOf(j)}]
               /\ jobs' = [jobs EXCEPT ![j].pc = "done",
                                       ![j].response = "success",
                                       ![j].returned = jobs[j].screenshots]
          ELSE /\ jobs' = [jobs EXCEPT ![j].pc = "catch"]
               /\ UNCHANGED browsers
    /\ UNCHANGED << runVars, args, result >>

\* catch (error): if (browser) { try { await browser.close() } catch {} },
\* then the error answer
JobCatch(j) ==
    /\ j \in DOMAIN jobs
    /\ jobs[j].pc = "catch"
    /\ \E ok \in BOOLEAN :
          IF ok /\ jobs[j].browser # NoBrowser
          THEN browsers' = [browsers EXCEPT !.open = @ \ {BrowserOf(j)}]
          ELSE UNCHANGED browsers
    /\ jobs' = [jobs EXCEPT ![j].pc = "done", ![j].response = "error"]
    /\ UNCHANGED << runVars, args, result >>

NextJobs ==
    \E j \in JobIds :
        \/ Submit(j)
        \/ JobLaunch(j)
        \/ JobSteps(j)
        \/ JobCapture(j)
        \/ JobClose(j)
        \/ JobCatch(j)

SpecJobs == InitJobs /\ [][NextJobs]_vars

----------------------------------------------------------------------------
(* selectView(page, viewName): texts are sequences of words *)

IndoorView == << "Indoor", "View" >>
OutdoorView == << "Outdoor", "View" >>
OutdoorIndoor == << "Outdoor", "&", "Indoor" >>
IndoorOutdoor == << "Indoor", "&", "Outdoor" >>

\* the viewName arguments the callers pass: 'Indoor View', 'Outdoor View'
\* and names out of possibleNames
ViewNames ==
    {IndoorView, OutdoorView, OutdoorIndoor, IndoorOutdoor,
     << "Outdoor", "and", "Indoor" >>, << "Indoor", "&", "Outdoor", "View" >>}

\* the option lists a dropdown of the page may render, in DOM order
OptionLists ==
    {<< IndoorView, OutdoorView, OutdoorIndoor >>,
     << IndoorView, OutdoorView, IndoorOutdoor >>,
     << OutdoorView, IndoorOutdoor >>,
     << << "Day" >>, << "Night" >> >>,
     << << "RSRP" >>, << "RSRQ" >> >>}

\* the value a dropdown shows
Values == {IndoorView, << "Day" >>, << "RSRP" >>}

\* a dropdown of the page: hidden, visible but not opening whatever is
\* tried, or visible and opening
Dropdowns ==
    {[value |-> << "RSRP" >>, visible |-> FALSE, opens |-> FALSE,
      options |-> << >>]}
    \cup {[value |-> v, visible |-> TRUE, opens |-> FALSE, options |-> << >>] :
             v \in Values}
    \cup {[value |-> v, visible |-> TRUE, opens |-> TRUE, options |-> o] :
             v \in Values, o \in OptionLists}

MaxDropdowns == 2

\* the readonly dropdowns of the page, in DOM order
Pages == UNION {[1..n -> Dropdowns] : n \in 0..MaxDropdowns}

\* text.includes(phrase): the words of phrase, next to each other
Includes(text, phrase) ==
    \E k \in 0..(Len(text) - Len(phrase)) :
        \A i \in 1..Len(phrase) : text[k + i] = phrase[i]

\* position of the '&' in a name, 0 when it has none
AmpAt(name) ==
    IF \E i \in 1..Len(name) : name[i] = "&"
    THEN CHOOSE i \in 1..Len(name) : name[i] = "&"
    ELSE 0

\* new RegExp(name.replace(/[&]/g, '.*'), 'i').test(text): the words before
\* the '&', a space, anything, a space, the words after it
Matches(text, name) ==
    IF AmpAt(name) = 0 THEN Includes(text, name)
    ELSE LET left == SubSeq(name, 1, AmpAt(name) - 1)
             right == SubSeq(name, AmpAt(name) + 1, Len(name))
         IN  \E i \in 0..Len(text), j \in 0..Len(text) :
                 /\ i + Len(left) + 1 <= j
                 /\ j + Len(right) <= Len(text)
                 /\ \A a \in 1..Len(left) : text[i + a] = left[a]
                 /\ \A b \in 1..Len(right) : text[j + b] = right[b]

\* viewName.includes('&') ? viewName.replace('&', 'and')
\*                        : viewName.replace(' and ', ' & ')
AltName(name) ==
    [i \in 1..Len(name) |->
        IF AmpAt(name) # 0
        THEN (IF name[i] = "&" THEN "and" ELSE name[i])
        ELSE (IF name[i] = "and" /\ i > 1 /\ i < Len(name)
                 /\ \A j \in 1..(i - 1) : name[j] # "and"
              THEN "&" ELSE name[i])]

\* viewName.split(/[\s&]+/).filter(w => w.length > 2)
Keywords(name) == SelectSeq(name, LAMBDA w : w # "&")

\* .first() of the options that satisfy a test, given as the sequence of
\* the test's values; 0 when there is none
First(hits) ==
    IF \E i \in 1..Len(hits) : hits[i]
    THEN CHOOSE i \in 1..Len(hits) :
             hits[i] /\ \A j \in 1..(i - 1) : ~hits[j]
    ELSE 0

\* for (const kw of keywords) { option = ...first(); if (count > 0) break }
RECURSIVE ByKeyword(_, _)
ByKeyword(options, kws) ==
    IF kws = << >> THEN 0
    ELSE LET hit == First([k \in 1..Len(options) |-> Includes(options[k], << Head(kws) >>)])
         IN  IF hit # 0 THEN hit ELSE ByKeyword(options, Tail(kws))

\* the option the attempt clicks: has-text(viewName), then the name as a
\* pattern, then the alternative name, then single keywords
FindOption(options, name) ==
    LET byText == First([k \in 1..Len(options) |-> Includes(options[k], name)])
        byRegex == First([k \in 1..Len(options) |-> Matches(options[k], name)])
        byAlt == First([k \in 1..Len(options) |-> Matches(options[k], AltName(name))])
    IN  IF byText # 0 THEN byText
        ELSE IF byRegex # 0 THEN byRegex
        ELSE IF byAlt # 0 THEN byAlt
        ELSE ByKeyword(options, Keywords(name))

\* viewKeywords.some(kw => d.value.toLowerCase().includes(kw))
ValueLooksLikeView(value) ==
    \E kw \in {"View", "Indoor", "Outdoor", "Day", "Night"} :
        Includes(value, << kw >>)

\* options.some(opt => opt.includes('View') || opt.includes('Indoor') ||
\*                     opt.includes('Outdoor'))
IsViewDropdown(options) ==
    \E i \in 1..Len(options) :
        \E kw \in {"View", "Indoor", "Outdoor"} : Includes(options[i], << kw >>)

\* Step A: dropdownInfos.findIndex(...), 0 for -1
LikelyViewDropdown(page) ==
    IF \E i \in 1..Len(page) : page[i].visible /\ ValueLooksLikeView(page[i].value)
    THEN CHOOSE i \in 1..Len(page) :
             /\ page[i].visible /\ ValueLooksLikeView(page[i].value)
             /\ \A j \in 1..(i - 1) :
                   ~(page[j].visible /\ ValueLooksLikeView(page[j].value))
    ELSE 0

\* Step C: the first dropdown that is visible, opens and shows a view option
FirstViewDropdown(page) ==
    IF \E i \in 1..Len(page) :
          page[i].visible /\ page[i].opens /\ IsViewDropdown(page[i].options)
    THEN CHOOSE i \in 1..Len(page) :
             /\ page[i].visible /\ page[i].opens /\ IsViewDropdown(page[i].options)
             /\ \A j \in 1..(i - 1) :
                   ~(page[j].visible /\ page[j].opens
                     /\ IsViewDropdown(page[j].options))
    ELSE 0

\* the dropdowns Step C opens and closes again before it stops
Dismissed(page) ==
    LET stop == IF FirstViewDropdown(page) = 0 THEN Len(page) + 1
                ELSE FirstViewDropdown(page)
    IN  {i \in 1..(stop - 1) : page[i].visible /\ page[i].opens}

\* what can go wrong in an attempt beside the page itself: page.evaluate
\* throws, or the click on the option throws
Faults == {"none", "evaluate", "click"}

\* one pass of the try block: the dropdown it settles on, whether the
\* option list of that dropdown was read before, the option clicked
Attempt(page, name, fault) ==
    LET likely == LikelyViewDropdown(page)
        byValue == likely # 0 /\ page[likely].opens
        found == IF byValue THEN likely ELSE FirstViewDropdown(page)
        option == IF found = 0 THEN 0 ELSE FindOption(page[found].options, name)
    IN  IF fault = "evaluate"
        THEN [ok |-> FALSE, committed |-> 0, checked |-> FALSE,
              dismissed |-> {}, clicked |-> << >>]
        ELSE [ok |-> found # 0 /\ option # 0 /\ fault = "none",
              committed |-> found,
              checked |-> found # 0 /\ ~byValue,
              dismissed |-> IF byValue THEN {} ELSE Dismissed(page),
              clicked |-> IF found # 0 /\ option # 0 /\ fault = "none"
                          THEN page[found].options[option] ELSE << >>]

\* if (attempt > 1) { wait 2000; Escape; wait 500; mouse.click(100, 100);
\* wait 500 }
BetweenAttempts_NoClick == << "wait", "Escape" >>

BetweenAttempts == << "wait", "Escape", "click(100,100)" >>

\* a loop that gives up at the first attempt that fails
Returned_GivesUp(ok, n) == IF ok THEN "true" ELSE "false"

\* return true at the end of the try block; in the catch block
\* if (attempt === 3) return false, otherwise the loop goes round
Returned(ok, n) ==
    IF ok THEN "true" ELSE IF n = MaxAttempts THEN "false" ELSE "pending"

\* selectView has been called and has made no attempt yet
InitSelect ==
    /\ Quiet
    /\ NoJobs
    /\ args \in [page : Pages, viewName : ViewNames]
    /\ result = [attempts |-> 0, returned |-> "pending", failures |-> 0,
                 clean |-> TRUE, last |-> Attempt(<< >>, IndoorView, "none"),
                 unchecked |-> FALSE, log |-> << >>]

\* one turn of for (let attempt = 1; attempt <= 3; attempt++) { try ... }
SelectAttempt ==
    /\ DOMAIN args = {"page", "viewName"}
    /\ result.returned = "pending"
    /\ result.attempts < MaxAttempts
    /\ \E fault \in Faults :
          LET a == Attempt(args.page, args.viewName, fault)
              n == result.attempts + 1
          IN  result' =
                  [attempts |-> n,
                   returned |-> Returned(a.ok, n),
                   failures |-> result.failures + (IF a.ok THEN 0 ELSE 1),
                   clean |-> result.clean /\ fault = "none",
                   last |-> a,
                   unchecked |-> result.unchecked
                                 \/ (a.committed # 0 /\ ~a.checked),
                   log |-> result.log
                           \o (IF n > 1 THEN BetweenAttempts ELSE << >>)
                           \o << "inspect" >>
                           \o (IF a.ok THEN << >> ELSE << "Escape" >>)]
    /\ UNCHANGED << runVars, args, jobs, browsers >>

NextSelect == SelectAttempt

SpecSelect == InitSelect /\ [][NextSelect]_vars

----------------------------------------------------------------------------
(* openNetworkProvider(page) and openLTESection(page) *)

Panels == {"Network Provider", "LTE"}

\* what a locating method meets: its element is there and the click opens
\* the panel, its element is not there (count() is 0, result.success is
\* false), or it throws
MethodOutcomes == {"opens", "absent", "throws"}

\* one turn of the attempt loop: method 2 is in the catch block of method
\* 1, method 3 in the catch block of method 2
PanelAttempt(m1, m2, m3) ==
    IF m1 # "throws" THEN [tried |-> << 1 >>, ended |-> m1]
    ELSE IF m2 # "throws" THEN [tried |-> << 1, 2 >>, ended |-> m2]
    ELSE [tried |-> << 1, 2, 3 >>, ended |-> m3]

\* throw new Error('Could not open ... after 3 attempts')
PanelError(panel) ==
    IF panel = "LTE" THEN "Could not open LTE section after 3 attempts"
    ELSE "Could not open Network Provider section after 3 attempts"

InitPanel ==
    /\ Quiet
    /\ NoJobs
    /\ args \in [panel : Panels]
    /\ result = [log |-> << >>, opened |-> FALSE, thrown |-> "none"]

\* for (let attempt = 1; attempt <= 3; attempt++) { ... } and, after the
\* last turn, if (!opened) throw
OpenPanelAttempt ==
    /\ DOMAIN args = {"panel"}
    /\ ~result.opened
    /\ Len(result.log) < MaxAttempts
    /\ \E m1 \in MethodOutcomes, m2 \in MethodOutcomes, m3 \in MethodOutcomes :
          LET a == PanelAttempt(m1, m2, m3)
              last == Len(result.log) + 1 = MaxAttempts
          IN  result' = [log |-> Append(result.log, a),
                         opened |-> a.ended = "opens",
                         thrown |-> IF a.ended # "opens" /\ last
                                    THEN PanelError(args.panel) ELSE "none"]
    /\ UNCHANGED << runVars, args, jobs, browsers >>

NextPanel == OpenPanelAttempt

SpecPanel == InitPanel /\ [][NextPanel]_vars

----------------------------------------------------------------------------
(* configureCarriers(page, carriersToSelect) *)

\* Object.entries(allCarriers): the name in the request and the first word
\* and the rest of the name on the page
allCarriers ==
    << [userName |-> "AT&T", siteName |-> << "AT&T", "US" >>],
       [userName |-> "Verizon", siteName |-> << "Verizon" >>],
       [userName |-> "T-Mobile", siteName |-> << "T-Mobile", "US" >>] >>

Carriers == {allCarriers[i].userName : i \in 1..Len(allCarriers)}

\* what the page holds for a carrier: a visible label whose checkbox
\* #<for> can be read; a visible label whose for attribute is not a usable
\* selector, so that isChecked() rejects; a label that is not visible, seen
\* only by document.querySelectorAll; no label at all
Controls == {"label", "unreadable", "hidden", "absent"}

\* what a click on the label does: it toggles the checkbox, it leaves it
\* as it was, or it throws into the catch of the turn
ClickOutcomes == {"toggles", "nothing", "throws"}

\* carriersToSelect.includes(userName)
shouldBeChecked(carriersToSelect, carrier) ==
    carrier.userName \in carriersToSelect

\* await carrierCheckbox.isChecked().catch(() => false) in method 1,
\* checkbox.checked in method 2
isChecked(control, checked) ==
    IF control = "unreadable" THEN FALSE ELSE checked

\* if (isChecked !== shouldBeChecked)
ShouldClick(read, should) == read # should

\* one turn of the loop over the carriers: method 1 on a visible label with
\* a for attribute (found = true even when the click was not needed),
\* method 2 if (!found), and the catch around both
ConfigureOne(control, checked, should, outcome) ==
    LET method1 == control \in {"label", "unreadable"}
        method2 == control = "hidden"
        read == isChecked(control, checked)
        clicked == (method1 \/ method2) /\ ShouldClick(read, should)
        toggled == clicked /\ outcome = "toggles"
    IN  [found |-> method1 \/ method2,
         warned |-> clicked /\ outcome = "throws",
         read |-> read,
         clicked |-> clicked,
         toggled |-> toggled,
         checked |-> IF toggled THEN ~checked ELSE checked]

\* the function is run twice on the same page
MaxRuns == 2

InitCarriers ==
    /\ Quiet
    /\ NoJobs
    /\ args \in [carriersToSelect : SUBSET Carriers,
                 controls : [Carriers -> Controls]]
    /\ result \in [checked : [Carriers -> BOOLEAN], log : {<< >>}]

\* for (const [userName, siteName] of Object.entries(allCarriers)) { ... }
ConfigureCarrier ==
    /\ DOMAIN args = {"carriersToSelect", "controls"}
    /\ Len(result.log) < MaxRuns * Len(allCarriers)
    /\ \E outcome \in ClickOutcomes :
          LET carrier == allCarriers[(Len(result.log) % Len(allCarriers)) + 1]
              name == carrier.userName
              should == shouldBeChecked(args.carriersToSelect, carrier)
              one == ConfigureOne(args.controls[name], result.checked[name],
                                  should, outcome)
          IN  result' = [checked |-> [result.checked EXCEPT ![name] = one.checked],
                         log |-> Append(result.log,
                                        [userName |-> name,
                                         run |-> (Len(result.log) \div Len(allCarriers)) + 1,
                                         before |-> result.checked[name],
                                         should |-> should,
                                         found |-> one.found,
                                         clicked |-> one.clicked,
                                         toggled |-> one.toggled,
                                         warned |-> one.warned])]
    /\ UNCHANGED << runVars, args, jobs, browsers >>

NextCarriers == ConfigureCarrier

SpecCarriers == InitCarriers /\ [][NextCarriers]_vars

----------------------------------------------------------------------------
(* The steps that swallow their own errors: selectDayView,                *)
(* configureCarriers, selectRSRP, zoomIn, collapseSidebar,                *)
(* closeOpenPopups, expandSidebar.  A helper is the awaited browser       *)
(* operations of its try block, those of its catch block, and whether the *)
(* catch block has a try of its own around them.  waitForTimeout and the  *)
(* wait tiers are timers and are not listed.                              *)

\* a catch block that retries through page.evaluate without a try around it
selectDayView_Rethrows ==
    [name |-> "selectDayView",
     body |-> << "waitFor", "hover", "click", "mouse.move" >>,
     recovery |-> << "evaluate" >>,
     guarded |-> FALSE]

selectDayView ==
    [name |-> "selectDayView",
     body |-> << "waitFor", "hover", "click", "mouse.move" >>,
     recovery |-> << "evaluate" >>,
     guarded |-> TRUE]

\* one turn of the loop over the carriers: method 1, then method 2
configureCarriers ==
    [name |-> "configureCarriers",
     body |-> << "count", "getAttribute", "click", "evaluate" >>,
     recovery |-> << >>,
     guarded |-> TRUE]

selectRSRP ==
    [name |-> "selectRSRP",
     body |-> << "waitFor", "isChecked", "check", "count" >>,
     recovery |-> << >>,
     guarded |-> TRUE]

\* zoomIn(page, clicks = 4), called as zoomIn(page, 4)
ZoomClicks == 4

zoomIn ==
    [name |-> "zoomIn",
     body |-> << "count", "getAttribute", "waitFor" >>
              \o [i \in 1..ZoomClicks |-> "click"],
     recovery |-> << >>,
     guarded |-> TRUE]

collapseSidebar ==
    [name |-> "collapseSidebar",
     body |-> << "waitFor", "click" >>,
     recovery |-> << >>,
     guarded |-> TRUE]

closeOpenPopups ==
    [name |-> "closeOpenPopups",
     body |-> << "evaluate" >>,
     recovery |-> << >>,
     guarded |-> TRUE]

expandSidebar ==
    [name |-> "expandSidebar",
     body |-> << "count", "click" >>,
     recovery |-> << >>,
     guarded |-> TRUE]

\* the helpers in the order in which a run with two views calls them
BestEffortSteps ==
    << selectDayView, configureCarriers, selectRSRP, zoomIn, collapseSidebar,
       closeOpenPopups, expandSidebar >>

\* a call of a helper in which operation failAt of the try block throws
\* (0: none does) and the operations of the catch block throw or not
RunHelper(h, failAt, recoveryThrows) ==
    LET failed == failAt # 0
        recovering == failed /\ h.recovery # << >>
    IN  [name |-> h.name,
         ran |-> (IF failed THEN SubSeq(h.body, 1, failAt) ELSE h.body)
                 \o (IF recovering THEN h.recovery ELSE << >>),
         failed |-> failed /\ (recovering => recoveryThrows),
         escaped |-> recovering /\ recoveryThrows /\ ~h.guarded]

InitBestEffort ==
    /\ Quiet
    /\ NoJobs
    /\ args = [workflow |-> [i \in 1..Len(BestEffortSteps) |-> BestEffortSteps[i].name]]
    /\ result = [log |-> << >>, thrown |-> FALSE]

\* await ooklaHelpers.<helper>(page), inside the try of the caller
CallHelper ==
    /\ DOMAIN args = {"workflow"}
    /\ ~result.thrown
    /\ Len(result.log) < Len(BestEffortSteps)
    /\ LET h == BestEffortSteps[Len(result.log) + 1]
       IN  \E failAt \in 0..Len(h.body), recoveryThrows \in BOOLEAN :
              LET r == RunHelper(h, failAt, recoveryThrows)
              IN  result' = [log |-> Append(result.log, r),
                             thrown |-> r.escaped]
    /\ UNCHANGED << runVars, args, jobs, browsers >>

NextBestEffort == CallHelper

SpecBestEffort == InitBestEffort /\ [][NextBestEffort]_vars

----------------------------------------------------------------------------
(* The sidebar during the captures: collapseSidebar and expandSidebar     *)
(* click the same toggle button, a click that goes through flips the      *)
(* sidebar, a click that throws leaves it as it is.  The coverage         *)
(* handlers keep the flag sidebarCollapsed, the ROM service keeps none.   *)

\* the views a run goes through: 1..3 in a coverage handler, 2 in the ROM
\* service
SidebarRuns ==
    [handler : {"coverage"}, views : 1..Len(AllViews)]
    \cup [handler : {"rom"}, views : {2}]

InitSidebar ==
    /\ Quiet
    /\ NoJobs
    /\ args \in SidebarRuns
    /\ result = [sidebarCollapsed |-> FALSE, collapsed |-> FALSE, pos |-> 1,
                 at |-> "select", log |-> << >>]

\* what the handler does after a view: the next view, or the end
SidebarNext(pos) == IF pos < args.views THEN "select" ELSE "end"

\* selectView(page, ...) for the view at pos
SidebarSelect ==
    /\ DOMAIN args = {"handler", "views"}
    /\ result.at = "select"
    /\ \E ok \in BOOLEAN :
          result' = [result EXCEPT
              !.log = Append(@, [op |-> "selectView",
                                 collapsed |-> result.collapsed]),
              !.at = IF ~ok THEN SidebarNext(result.pos)
                     ELSE IF args.handler = "rom" \/ ~result.sidebarCollapsed
                     THEN "prepare" ELSE "capture",
              !.pos = IF ok THEN @ ELSE @ + 1]
    /\ UNCHANGED << runVars, args, jobs, browsers >>

\* prepareForScreenshot(); sidebarCollapsed = true
SidebarPrepare ==
    /\ DOMAIN args = {"handler", "views"}
    /\ result.at = "prepare"
    /\ \E clicked \in BOOLEAN :
          result' = [result EXCEPT
              !.log = Append(@, [op |-> "collapseSidebar",
                                 collapsed |-> result.collapsed]),
              !.collapsed = IF clicked THEN ~@ ELSE @,
              !.sidebarCollapsed = args.handler = "coverage",
              !.at = "capture"]
    /\ UNCHANGED << runVars, args, jobs, browsers >>

\* takeScreenshot(...), which ends the run when it throws; after a capture
\* that is not for the last requested view the sidebar is expanded
SidebarCapture ==
    /\ DOMAIN args = {"handler", "views"}
    /\ result.at = "capture"
    /\ \E ok \in BOOLEAN :
          result' = [result EXCEPT
              !.log = Append(@, [op |-> "takeScreenshot",
                                 collapsed |-> result.collapsed]),
              !.at = IF ~ok THEN "end"
                     ELSE IF result.pos < args.views THEN "expand"
                     ELSE "end"]
    /\ UNCHANGED << runVars, args, jobs, browsers >>

\* expandSidebar(); sidebarCollapsed = false
SidebarExpand ==
    /\ DOMAIN args = {"handler", "views"}
    /\ result.at = "expand"
    /\ \E clicked \in BOOLEAN :
          result' = [result EXCEPT
              !.log = Append(@, [op |-> "expandSidebar",
                                 collapsed |-> result.collapsed]),
              !.collapsed = IF clicked THEN ~@ ELSE @,
              !.sidebarCollapsed = FALSE,
              !.at = "select",
              !.pos = @ + 1]
    /\ UNCHANGED << runVars, args, jobs, browsers >>

NextSidebar ==
    \/ SidebarSelect
    \/ SidebarPrepare
    \/ SidebarCapture
    \/ SidebarExpand

SpecSidebar == InitSidebar /\ [][NextSidebar]_vars

----------------------------------------------------------------------------
(* The combined view: for (const viewName of possibleNames) *)

possibleNames ==
    << OutdoorIndoor,
       IndoorOutdoor,
       << "Outdoor", "and", "Indoor" >>,
       << "Indoor", "and", "Outdoor" >>,
       << "Indoor", "&", "Outdoor", "View" >>,
       << "Outdoor", "&", "Indoor", "View" >> >>

\* selectView(page, viewName) as a whole: its attempts meet the same page,
\* so without a fault the call returns what one attempt gives; a call whose
\* attempts all hit a fault returns false
selectView(page, viewName, faulty) ==
    LET a == Attempt(page, viewName, "none")
    IN  [ok |-> a.ok /\ ~faulty,
         \* 'Could not find VIEW dropdown': no dropdown could be opened
         stuck |-> ~faulty /\ a.committed = 0]

\* inputs.length > 0, false when page.evaluate rejects
canOpen(page, rejects) == ~rejects /\ Len(page) > 0

InitCombined ==
    /\ Quiet
    /\ NoJobs
    /\ args \in [page : Pages, possibleNames : {possibleNames}]
    /\ result = [tried |-> << >>, success |-> FALSE,
                 dropdownOpenFailed |-> FALSE, left |-> FALSE]

\* one turn of the loop over possibleNames
TryName ==
    /\ DOMAIN args = {"page", "possibleNames"}
    /\ ~result.left
    /\ Len(result.tried) < Len(args.possibleNames)
    /\ \E faulty \in BOOLEAN, rejects \in BOOLEAN :
          LET viewName == args.possibleNames[Len(result.tried) + 1]
              r == selectView(args.page, viewName, faulty)
              asks == ~r.ok /\ ~result.dropdownOpenFailed
              gone == asks /\ ~canOpen(args.page, rejects)
          IN  result' =
                  [tried |-> Append(result.tried,
                                    [viewName |-> viewName, ok |-> r.ok,
                                     stuck |-> r.stuck]),
                   success |-> r.ok,
                   dropdownOpenFailed |-> result.dropdownOpenFailed
                                          \/ (asks /\ ~gone),
                   left |-> r.ok \/ gone
                            \/ Len(result.tried) + 1 = Len(args.possibleNames)]
    /\ UNCHANGED << runVars, args, jobs, browsers >>

NextCombined == TryName

SpecCombined == InitCombined /\ [][NextCombined]_vars

----------------------------------------------------------------------------
(* takeScreenshot(page, viewType, sanitizedAddress, timestamp) *)

\* the sanitized addresses a capture is named with
ShortAddresses == {sanitizedAddress(a) : a \in {b \in Addresses : Len(b) <= 2}}

\* the captures the function calls and what it gives back: waitForLoadState
\* has a catch of its own, page.screenshot({ fullPage: false }) takes the
\* viewport, and the catch block logs and rethrows
takeScreenshot(prefix, view, sanitized, ts, shot) ==
    [captures |-> << [target |-> "viewport", ok |-> shot] >>,
     outcome |-> IF shot THEN "artifact" ELSE "throws",
     filename |-> IF shot THEN filename(prefix, view, sanitized, ts) ELSE << >>]

InitCapture ==
    /\ Quiet
    /\ NoJobs
    /\ args \in [prefix : {"ookla", "rom"}, viewType : {"INDOOR", "OUTDOOR"},
                 sanitizedAddress : ShortAddresses,
                 timestamp : {timestamp(iso) : iso \in IsoTimes}]
    /\ result = [captures |-> << >>, outcome |-> "pending", filename |-> << >>]

\* one call of takeScreenshot
Capture ==
    /\ DOMAIN args = {"prefix", "viewType", "sanitizedAddress", "timestamp"}
    /\ result.outcome = "pending"
    /\ \E shot \in BOOLEAN :
          result' = takeScreenshot(args.prefix, args.viewType,
                                   args.sanitizedAddress, args.timestamp, shot)
    /\ UNCHANGED << runVars, args, jobs, browsers >>

NextCapture == Capture

SpecCapture == InitCapture /\ [][NextCapture]_vars

----------------------------------------------------------------------------
(* validateRequest({ address, carriers }) on JavaScript values: a value is *)
(* its type with the number, the characters or the items it holds          *)

Js(type, num, text, items) ==
    [type |-> type, num |-> num, text |-> text, items |-> items]

Undefined == Js("undefined", 0, << >>, << >>)
JsNumber(n) == Js("number", n, << >>, << >>)
JsString(text) == Js("string", 0, text, << >>)
JsArray(items) == Js("array", 0, << >>, items)

\* !v is false for these values
Truthy(v) ==
    CASE v.type = "undefined" -> FALSE
      [] v.type = "number" -> v.num # 0
      [] v.type = "string" -> Len(v.text) > 0
      [] OTHER -> TRUE

\* a trim that leaves the text as it is
Trim_Nothing(text) == text

\* text.trim(): the text between its first and its last character that is
\* not white space
Trim(text) ==
    LET inked == {i \in 1..Len(text) : text[i] # " "}
    IN  IF inked = {} THEN << >>
        ELSE SubSeq(text,
                    CHOOSE i \in inked : \A j \in inked : i <= j,
                    CHOOSE i \in inked : \A j \in inked : j <= i)

validCarriers == << "AT&T", "Verizon", "T-Mobile" >>

\* carriers.filter(c => !validCarriers.includes(c))
invalidCarriers(items) ==
    SelectSeq(items, LAMBDA c : \A i \in 1..Len(validCarriers) : validCarriers[i] # c)

\* the errors array validateRequest builds
errors(address, carriers) ==
    (IF ~Truthy(address) \/ address.type # "string"
        \/ Len(Trim(address.text)) = 0
     THEN << "Address is required and must be a non-empty string" >>
     ELSE << >>)
    \o (IF ~Truthy(carriers) \/ carriers.type # "array"
           \/ Len(carriers.items) = 0
        THEN << "Carriers is required and must be a non-empty array" >>
        ELSE IF Len(invalidCarriers(carriers.items)) > 0
        THEN << "Invalid carriers" >>
        ELSE << >>)

MaxText == 2
MaxCarriers == 2

\* the values a request body may hold for address
AddressValues ==
    {Undefined, JsNumber(0), JsNumber(42), JsArray(<< "a" >>)}
    \cup {JsString(t) : t \in UNION {[1..n -> {" ", "a"}] : n \in 0..MaxText}}

\* the values a request body may hold for carriers
CarrierValues ==
    {Undefined, JsNumber(0), JsNumber(1), JsString(<< >>), JsString(<< "AT&T" >>)}
    \cup {JsArray(c) :
             c \in UNION {[1..n -> {"AT&T", "Verizon", "T-Mobile", "Sprint", "at&t"}] :
                             n \in 0..MaxCarriers}}

InitValidate ==
    /\ Quiet
    /\ NoJobs
    /\ args \in [address : AddressValues, carriers : CarrierValues]
    /\ result = [called |-> FALSE, isValid |-> FALSE, errors |-> << >>]

\* return { isValid: errors.length === 0, errors }
CallValidate ==
    /\ DOMAIN args = {"address", "carriers"}
    /\ ~result.called
    /\ LET e == errors(args.address, args.carriers)
       IN  result' = [called |-> TRUE, isValid |-> Len(e) = 0, errors |-> e]
    /\ UNCHANGED << runVars, args, jobs, browsers >>

NextValidate == CallValidate

SpecValidate == InitValidate /\ [][NextValidate]_vars

----------------------------------------------------------------------------
(* Timing utilities (services/ooklaHelpers.js 12-32) *)

\* Math.random() is a fraction r / RandomGrain with 0 <= r < RandomGrain,
\* that is a number in [0, 1); the draws cover both ends and both sides of
\* one half
RandomGrain == 1024

Randoms == {0, 1, RandomGrain \div 2, (RandomGrain \div 2) + 1, RandomGrain - 1}

\* Math.floor(Math.random() * (max - min + 1)) + min
randomDelay_Ceil(min, max, r) ==
    (((r * (max - min + 1)) + RandomGrain - 1) \div RandomGrain) + min

randomDelay(min, max, r) ==
    ((r * (max - min + 1)) \div RandomGrain) + min

\* page.waitForTimeout(randomDelay(200, 400))
shortWait(r) == randomDelay(200, 400, r)

\* page.waitForTimeout(randomDelay(500, 900))
mediumWait(r) == randomDelay(500, 900, r)

\* page.waitForTimeout(randomDelay(1200, 2000))
longWait(r) == randomDelay(1200, 2000, r)

Max(a, b) == IF a > b THEN a ELSE b

\* variation = baseMs * (0.1 + Math.random() * 0.2), a fraction over
\* 10 * RandomGrain; actualDelay = Math.floor(baseMs + (Math.random() > 0.5
\* ? variation : -variation * 0.3)); the wait is Math.max(actualDelay, 80)
humanWait(baseMs, r1, r2) ==
    LET actualDelay ==
            IF 2 * r2 > RandomGrain
            THEN (baseMs * ((11 * RandomGrain) + (2 * r1))) \div (10 * RandomGrain)
            ELSE (baseMs * ((97 * RandomGrain) - (6 * r1))) \div (100 * RandomGrain)
    IN  Max(actualDelay, 80)

\* the widest range of a general call that is enumerated
MaxSpan == 5

\* randomDelay(-5, 5), randomDelay(2, 3), randomDelay(30, 70): ranges start
\* below, at and above zero
RangeStarts == {-5, 0, 2, 30}

\* humanWait(page, 800), (page, 500), (page, 600) are the calls of the code;
\* the smaller bases are where the floor of 80 applies
BaseValues == {0, 50, 85, 90, 500, 600, 800}

WaitCalls ==
    {[wait |-> "randomDelay", min |-> lo, max |-> lo + span, baseMs |-> 0] :
        lo \in RangeStarts, span \in 0..MaxSpan}
    \cup {[wait |-> "tiers", min |-> 0, max |-> 0, baseMs |-> 0]}
    \cup {[wait |-> "humanWait", min |-> 0, max |-> 0, baseMs |-> b] :
            b \in BaseValues}

InitDelay ==
    /\ Quiet
    /\ NoJobs
    /\ args \in WaitCalls
    /\ result = [called |-> FALSE, waited |-> << >>]

\* one call of randomDelay(min, max)
CallRandomDelay ==
    /\ DOMAIN args = {"wait", "min", "max", "baseMs"}
    /\ args.wait = "randomDelay"
    /\ ~result.called
    /\ \E r \in Randoms :
          result' = [called |-> TRUE,
                     waited |-> << randomDelay(args.min, args.max, r) >>]
    /\ UNCHANGED << runVars, args, jobs, browsers >>

\* a short, a medium and a long wait, each with its own draw
CallTiers ==
    /\ DOMAIN args = {"wait", "min", "max", "baseMs"}
    /\ args.wait = "tiers"
    /\ ~result.called
    /\ \E r1 \in Randoms, r2 \in Randoms, r3 \in Randoms :
          result' = [called |-> TRUE,
                     waited |-> << shortWait(r1), mediumWait(r2), longWait(r3) >>]
    /\ UNCHANGED << runVars, args, jobs, browsers >>

\* one call of humanWait(page, baseMs)
CallHumanWait ==
    /\ DOMAIN args = {"wait", "min", "max", "baseMs"}
    /\ args.wait = "humanWait"
    /\ ~result.called
    /\ \E r1 \in Randoms, r2 \in Randoms :
          result' = [called |-> TRUE,
                     waited |-> << humanWait(args.baseMs, r1, r2) >>]
    /\ UNCHANGED << runVars, args, jobs, browsers >>

NextDelay ==
    \/ CallRandomDelay
    \/ CallTiers
    \/ CallHumanWait

SpecDelay == InitDelay /\ [][NextDelay]_vars

----------------------------------------------------------------------------
(* What the caller has been told *)

Terminal == pc = "done"

\* the terminal answer reports success / failure
Succeeded ==
    IF IsStream(endpoint)
    THEN \E i \in 1..Len(written) : written[i].final /\ written[i].success = "true"
    ELSE Len(responses) > 0 /\ responses[Len(responses)].success

Failed ==
    IF IsStream(endpoint)
    THEN /\ Len(written) > 0
         /\ \/ written[Len(written)].status = "error"
            \/ written[Len(written)].final /\ written[Len(written)].success = "false"
    ELSE Len(responses) > 0 /\ ~responses[Len(responses)].success

\* the artifacts the terminal answer carries
ReturnedShots ==
    IF IsStream(endpoint)
    THEN IF Len(written) > 0 THEN written[Len(written)].shots ELSE << >>
    ELSE IF Len(responses) > 0 THEN responses[Len(responses)].shots ELSE << >>

\* the answer rejects the request as invalid and nothing else was sent
ValidationErrorSent ==
    IF IsStream(endpoint)
    THEN /\ Len(written) = 1
         /\ written[1].status = "error"
         /\ ended = 1
    ELSE /\ Len(responses) = 1
         /\ responses[1].status = 400
         /\ ~responses[1].success

----------------------------------------------------------------------------
(* C1: on each of the four endpoints a request without an address never   *)
(* launches a browser, and its terminal answer is a validation error.     *)
C1_MissingAddressRejected ==
    request.address = "missing" =>
        /\ launches = 0
        /\ openSessions = 0
        /\ steps = << >>
        /\ Terminal => ValidationErrorSent /\ failure = "validation"

C1_Witness ==
    /\ request.address = "missing"
    /\ endpoint = "automate_stream"
    /\ Terminal
    /\ ValidationErrorSent

----------------------------------------------------------------------------
(* C2 as stated: the progress values written to the subscriber never      *)
(* decrease, from the first event to the terminal event included.         *)
C2_ProgressNeverDecreases ==
    \A i, j \in 1..Len(written) :
        (i < j /\ written[i].progress # Absent /\ written[j].progress # Absent)
            => written[i].progress <= written[j].progress

\* the terminal event of a failed run
IsErrorEvent(ev) == ev.status = "error" \/ (ev.final /\ ev.success = "false")

(* C2 amended: the progress values never decrease over the events that    *)
(* precede a failed run's terminal error event; a successful run ends     *)
(* at 100.                                                                *)
C2_ProgressMonotoneUntilError ==
    /\ \A i, j \in 1..Len(written) :
          (i < j /\ written[i].progress # Absent /\ written[j].progress # Absent
                 /\ ~IsErrorEvent(written[j]))
              => written[i].progress <= written[j].progress
    /\ (Terminal /\ IsStream(endpoint) /\ failure = "none") =>
          \E i \in 1..Len(written) :
              /\ written[i].progress = 100 * ProgressScale
              /\ \A j \in 1..Len(written) :
                    written[j].progress <= written[i].progress

C2_Witness ==
    /\ endpoint = "automate_stream"
    /\ Terminal
    /\ failure = "none"
    /\ Len(Views) = 3
    /\ Len(screenshots) = 2

----------------------------------------------------------------------------
ViewSet == {Views[i] : i \in 1..Len(Views)}

\* selectView has been called for the view
Called(v) == \E i \in 1..Len(steps) : steps[i] = [op |-> "selectView", view |-> v]

\* the views whose selection succeeded, in the order of the run
ArtifactsOf == SelectSeq(Views, LAMBDA v : v \in selected)

(* C3: when the selection of a requested view has failed, the other       *)
(* requested views are still attempted and the job ends successful with   *)
(* exactly one artifact for each view whose selection succeeded.          *)
C3_SkippedViewStillCompletes ==
    (Terminal /\ \E v \in ViewSet : Called(v) /\ v \notin selected) =>
        /\ \A v \in ViewSet : Called(v)
        /\ Succeeded
        /\ ReturnedShots = ArtifactsOf

(* C4: a capture failure is degrading: the job does not end failed and    *)
(* the artifacts captured for the other views are returned.               *)
C4_CaptureFailureDegrades ==
    (Terminal /\ failure = "capture") =>
        /\ ~Failed
        /\ Succeeded
        /\ ReturnedShots = screenshots

----------------------------------------------------------------------------
\* the operations a run may perform up to and including the sign-in, and
\* the closing of the session
UpToLogin == {"launch", "context", "login", "close"}

(* C5: after a rejected sign-in no later workflow step is executed, the   *)
(* session is closed (close is called, and the session is gone unless     *)
(* every close call threw), and the terminal answer reports failure       *)
(* without artifacts.                                                     *)
C5_RejectedLoginAborts ==
    failure = "auth" =>
        /\ \A i \in 1..Len(steps) : steps[i].op \in UpToLogin
        /\ screenshots = << >>
        /\ Terminal =>
              /\ closeCalls >= 1
              /\ closeThrows < closeCalls => openSessions = 0
              /\ Failed
              /\ ~Succeeded
              /\ ReturnedShots = << >>

C5_Witness ==
    /\ failure = "auth"
    /\ Terminal
    /\ endpoint = "automate"
    /\ responses = << Json(401, FALSE, << >>) >>

----------------------------------------------------------------------------
(* C6: on the synchronous endpoints a validation failure is answered with *)
(* a 4xx status, an authentication failure with 401, any other failure    *)
(* with 500, and only a successful run with 2xx.                          *)
C6_StatusMapping ==
    (Terminal /\ ~IsStream(endpoint)) =>
        /\ Len(responses) = 1
        /\ failure = "validation" => responses[1].status \in 400..499
        /\ failure = "auth" => responses[1].status = 401
        /\ failure \notin {"none", "validation", "auth"} => responses[1].status = 500
        /\ responses[1].status \in 200..299 <=> failure = "none"

(* C7: a browser.close() that throws never reaches the caller and never   *)
(* changes the outcome: a run whose steps all succeeded is reported       *)
(* successful with its artifacts.                                         *)
C7_CloseFailureHarmless ==
    (Terminal /\ closeThrows > 0 /\ failure \in {"none", "close"}) =>
        /\ Succeeded
        /\ ~Failed
        /\ ReturnedShots = screenshots

----------------------------------------------------------------------------
(* C8: a request launches at most one browser and signs in at most once,  *)
(* whatever retries its steps make; a valid request has launched exactly  *)
(* one browser when it ends, and at most one session is open at any time. *)
C8_OneSessionPerJob ==
    /\ launches <= 1
    /\ logins <= 1
    /\ openSessions <= 1
    /\ (Terminal /\ Accepted(endpoint, request)) => launches = 1
    /\ attempt > 1 => launches = 1 /\ logins = 1

C8_Witness ==
    /\ pc = "lte"
    /\ attempt = MaxAttempts
    /\ launches = 1
    /\ openSessions = 1

----------------------------------------------------------------------------
\* the view operations of the capture pipeline
ViewOps == {"selectView", "prepare", "takeScreenshot", "expand"}

(* C9: a coverage request that selects no optional view and whose         *)
(* mandatory steps succeed ends successful with an empty artifact list    *)
(* and count 0, and no view operation is ever invoked.                    *)
C9_NoViewsCompletesEmpty ==
    (~IsRom(endpoint) /\ Len(Views) = 0) =>
        /\ \A i \in 1..Len(steps) : steps[i].op \notin ViewOps
        /\ (Terminal /\ failure \notin {"validation", "session", "auth", "step"}) =>
              /\ Succeeded
              /\ ReturnedShots = << >>
              /\ IF IsStream(endpoint)
                 THEN written[Len(written)].count = 0
                 ELSE responses[1].count = 0

----------------------------------------------------------------------------
\* position of an operation in the fixed order of the workflow
Rank(op) ==
    CASE op = "launch" -> 1
      [] op = "context" -> 2
      [] op = "login" -> 3
      [] op = "dayview" -> 4
      [] op = "address" -> 5
      [] op = "netprov" -> 6
      [] op = "carriers" -> 7
      [] op = "lte" -> 8
      [] op = "rsrp" -> 9
      [] op \in ViewOps -> 10
      [] OTHER -> 11

(* C10: a streaming run is the same whether or not its subscriber is      *)
(* still attached: undeliverable events are dropped and nothing else, the *)
(* run reaches the catch block only through a failed step, the steps keep *)
(* their order, the stream is ended once, the session is closed, and the  *)
(* artifacts are those of the views whose selection succeeded.            *)
C10_DetachedRunUnaltered ==
    IsStream(endpoint) =>
        /\ Len(written) = Len(delivered) + dropped
        /\ delivered = SubSeq(written, 1, Len(delivered))
        /\ connected => dropped = 0
        /\ pc = "catch" => failure # "none"
        /\ \A i, j \in 1..Len(steps) :
              i < j => Rank(steps[i].op) <= Rank(steps[j].op)
        /\ Terminal =>
              /\ ended = 1
              /\ logins > 0 => closeCalls >= 1
              /\ failure # "none" => Failed
              /\ failure = "none" =>
                    /\ Succeeded
                    /\ ReturnedShots = ArtifactsOf
                    /\ \A v \in ViewSet : Called(v)

C10_Witness ==
    /\ IsStream(endpoint)
    /\ Terminal
    /\ ~connected
    /\ dropped > 2
    /\ Len(delivered) > 2
    /\ failure = "none"
    /\ Len(screenshots) = 2

----------------------------------------------------------------------------
\* the events of the stream that are marked final: true
FinalEvents == {i \in 1..Len(written) : written[i].final}

(* C11: every streaming response, on every path, contains exactly one     *)
(* event marked final: true, and that event is the last one written       *)
(* before the stream is ended.                                            *)
C11_ExactlyOneFinalEvent ==
    (Terminal /\ IsStream(endpoint)) =>
        /\ Cardinality(FinalEvents) = 1
        /\ written[Len(written)].final
        /\ ended = 1

----------------------------------------------------------------------------
\* the event carries the three fields progress, step and status
HasProgressFields(ev) ==
    ev.progress # Absent /\ ev.step # "absent" /\ ev.status # "absent"

(* C12 as stated: every event of a stream carries progress, step and      *)
(* status, and the final event carries these three together with the      *)
(* result and final: true.                                                *)
C12_EveryEventCarriesFields ==
    \A i \in 1..Len(written) :
        /\ HasProgressFields(written[i])
        /\ written[i].final => written[i].success # "absent"

(* C12 amended: every event that is not final carries progress, step and  *)
(* status and no result; a final event carries success, and with          *)
(* success: true the artifacts and their count; the final events of the   *)
(* ROM stream carry progress and step, the final event of the coverage    *)
(* stream carries none of the three and directly follows the event        *)
(* 100 / 'Complete!' / 'success'.                                         *)
C12_EventFields ==
    \A i \in 1..Len(written) :
        LET ev == written[i] IN
        /\ ~ev.final =>
              /\ HasProgressFields(ev)
              /\ ev.success = "absent"
              /\ ev.count = Absent
        /\ ev.final =>
              /\ ev.success \in {"true", "false"}
              /\ ev.success = "true" => ev.count = Len(ev.shots)
              /\ ev.success = "false" => ev.shots = << >>
              /\ IF IsRom(endpoint)
                 THEN ev.progress # Absent /\ ev.step # "absent"
                 ELSE /\ ev.progress = Absent
                      /\ ev.step = "absent"
                      /\ ev.status = "absent"
                      /\ i > 1
                      /\ written[i - 1].progress = 100 * ProgressScale
                      /\ written[i - 1].status = "success"

C12_Witness ==
    /\ endpoint = "automate_stream"
    /\ Terminal
    /\ failure = "none"
    /\ Len(screenshots) = 2
    /\ written[Len(written)].final
    /\ written[Len(written)].count = 2

----------------------------------------------------------------------------
\* what the caller receives at the end: the JSON body of a synchronous
\* handler, the last event of a stream
TerminalResult ==
    IF IsStream(endpoint) THEN written[Len(written)] ELSE responses[1]

\* the members a terminal result is made of
ResultFields ==
    {"status", "success", "shots", "count", "progress", "step", "final"}

(* C13: when a requested view has been skipped because its selection      *)
(* failed, the result returned by the successful run contains a record    *)
(* of that skip, beside the artifacts and their count.                    *)
C13_SkippedViewRecorded ==
    (Terminal /\ Succeeded /\ \E v \in ViewSet : Called(v) /\ v \notin selected) =>
        \E f \in DOMAIN TerminalResult : f \notin ResultFields

----------------------------------------------------------------------------
\* the operations that run once in a run, in the fixed order
OnceOps ==
    {"launch", "context", "login", "dayview", "address", "netprov",
     "carriers", "lte", "rsrp"}

(* C14: the steps run in the fixed order session creation, sign-in, day   *)
(* view, address, Network Provider, carriers, LTE, RSRP, view captures,   *)
(* session close: each step before the views runs at most once, no step   *)
(* runs unless every step before it has run, no view operation runs       *)
(* before RSRP has been attempted, and nothing runs after the close       *)
(* except a second close.                                                 *)
C14_StepsInFixedOrder ==
    LET once == SelectSeq(steps, LAMBDA s : s.op \in OnceOps) IN
    /\ \A i \in 1..Len(once) : Rank(once[i].op) = i
    /\ \A i \in 1..(Len(steps) - 1) :
          Rank(steps[i].op) <= Rank(steps[i + 1].op)
    /\ \A j \in 1..Len(steps) :
          /\ steps[j].op \in ViewOps => once[Len(once)].op = "rsrp"
          /\ steps[j].op = "close" => Len(once) >= 1
          /\ steps[j].op = "takeScreenshot" =>
                \E i \in 1..(j - 1) :
                    steps[i] = [op |-> "selectView", view |-> steps[j].view]
    /\ pc \in {"select", "prepare", "capture", "expand"} =>
          once[Len(once)].op = "rsrp"

C14_Witness ==
    /\ endpoint = "automate"
    /\ Terminal
    /\ failure = "none"
    /\ Len(screenshots) = 3
    /\ steps[Len(steps)].op = "close"
    /\ \E i \in 1..Len(steps) : steps[i].op = "expand"

----------------------------------------------------------------------------
\* the events announcing the capture of a view, in the order written
CaptureEvents ==
    SelectSeq(written, LAMBDA ev : ev.step \in {"INDOOR", "OUTDOOR", "OUTDOOR_INDOOR"})

(* C17: on the coverage stream with n requested views the k-th capture    *)
(* event reports 75 + 20 * k / n, so that the n-th reports 95; every      *)
(* capture event reports more than 75 and less than 98, and a run that    *)
(* gets through its views has written n capture events.                   *)
C17_CaptureProgressValues ==
    endpoint = "automate_stream" =>
        LET n == Len(Views)
            caps == CaptureEvents
        IN  /\ Len(caps) <= n
            /\ \A k \in 1..Len(caps) :
                  /\ caps[k].progress * n = ProgressScale * (75 * n + 20 * k)
                  /\ caps[k].progress > 75 * ProgressScale
                  /\ caps[k].progress < 98 * ProgressScale
            /\ (Len(caps) = n /\ n > 0) => caps[n].progress = 95 * ProgressScale
            /\ pc = "finish" => Len(caps) = n

C17_Witness ==
    /\ endpoint = "automate_stream"
    /\ Terminal
    /\ failure = "none"
    /\ Len(Views) = 3
    /\ Len(CaptureEvents) = 3
    /\ selected = {"INDOOR", "OUTDOOR_INDOOR"}

----------------------------------------------------------------------------
\* position of a view in the fixed order of the artifacts
ViewIndex(tag) ==
    CASE tag = "INDOOR" -> 1
      [] tag = "OUTDOOR" -> 2
      [] OTHER -> 3

(* C15: in every successful response count is the length of the           *)
(* screenshots list, every artifact is of a view the request names, a     *)
(* view contributes at most one artifact however often the request names  *)
(* it, and the artifacts are in the order INDOOR, OUTDOOR, OUTDOOR_INDOOR  *)
(* whatever the order of the request.                                     *)
C15_CountAndFixedOrder ==
    (Terminal /\ Succeeded) =>
        LET shots == ReturnedShots
            names == request.coverageTypes.names
        IN  /\ TerminalResult.count = Len(shots)
            /\ \A i, j \in 1..Len(shots) :
                  i < j => ViewIndex(shots[i]) < ViewIndex(shots[j])
            /\ ~IsRom(endpoint) =>
                  \A i \in 1..Len(shots) :
                      \E k \in 1..Len(names) : names[k] = CoverageName(shots[i])

C15_Witness ==
    /\ request.coverageTypes.names = << "Indoor & Outdoor", "Indoor", "Indoor" >>
    /\ Terminal
    /\ Succeeded
    /\ ReturnedShots = << "INDOOR", "OUTDOOR_INDOOR" >>
    /\ TerminalResult.count = 2

----------------------------------------------------------------------------
\* the file name contains _<tag>_
MatchesTag(fn, tag) ==
    \E i \in 1..(Len(fn) - 2) : fn[i] = "_" /\ fn[i + 1] = tag /\ fn[i + 2] = "_"

\* the part of a file name between the view tag and the timestamp
\* (both templates put four parts in front of it: ookla _ TAG _ and
\* rom _ TAG _)
AddressPart(fn) == SubSeq(fn, 5, Len(fn) - Len(args.iso) - 2)

(* C16: every artifact file name is made of the view tag, the sanitized   *)
(* address and the job's timestamp; the sanitized address has only the    *)
(* characters A-Z, a-z, 0-9 and '_' and at most 50 of them, a character   *)
(* of the address that is a letter or digit is kept and any other becomes *)
(* '_'; no two artifacts of a job share a file name; the artifact of the  *)
(* Indoor view has a name matching *_INDOOR_*.                            *)
C16_FileNames ==
    args # << >> =>
        /\ \A k \in 1..Len(result) :
              LET fn == result[k]
                  view == args.views[k]
                  part == AddressPart(fn)
              IN  /\ MatchesTag(fn, view)
                  /\ view = "INDOOR" => MatchesTag(fn, "INDOOR")
                  /\ Len(part) = Min(Len(args.address), 50)
                  /\ \A i \in 1..Len(part) :
                        /\ part[i] \in Letters \cup Digits \cup {"_"}
                        /\ part[i] = IF args.address[i] \in Letters \cup Digits
                                     THEN args.address[i] ELSE "_"
                  /\ fn[Len(fn)] = ".png"
                  /\ \A i \in 1..Len(args.iso) :
                        LET c == fn[Len(fn) - 1 - Len(args.iso) + i] IN
                        /\ c \notin {":", "."}
                        /\ args.iso[i] \notin {":", "."} => c = args.iso[i]
        /\ \A i, j \in 1..Len(result) : i # j => result[i] # result[j]

C16_Witness ==
    /\ args # << >>
    /\ Len(args.address) = 52
    /\ args.address[1] = " "
    /\ args.address[2] = "Z"
    /\ args.views = << "INDOOR", "OUTDOOR", "OUTDOOR_INDOOR" >>
    /\ Len(result) = 3

----------------------------------------------------------------------------
\* both service functions have handled the request
BothRan == result.ran = {"sync", "stream"}

(* C18: for the same request and the same behaviour of the helpers,       *)
(* executeRomAutomationStream calls the same helpers in the same order as *)
(* executeRomAutomation and returns the same result or throws the same    *)
(* error, and the final event of the stream carries the returned result   *)
(* (or the error).                                                        *)
C18_StreamEquivalentToSync ==
    BothRan =>
        LET a == result.sync
            b == result.stream
            last == b.events[Len(b.events)]
        IN  /\ a.calls = b.calls
            /\ a.returned = b.returned
            /\ a.thrown = b.thrown
            /\ last.final
            /\ \A i \in 1..(Len(b.events) - 1) : ~b.events[i].final
            /\ IF a.thrown = "nothing"
               THEN /\ last.success = "true"
                    /\ last.shots = a.returned.screenshots
                    /\ last.count = a.returned.count
               ELSE /\ last.success = "false"
                    /\ a.returned = NoResult

C18_Witness ==
    /\ BothRan
    /\ result.sync.thrown = "nothing"
    /\ result.stream.returned.screenshots = << "rom_INDOOR", "rom_OUTDOOR" >>
    /\ Len(result.stream.events) = 13

----------------------------------------------------------------------------
\* the job has launched a browser and has not yet called close on it
HoldsBrowser(j) ==
    jobs[j].browser # NoBrowser /\ jobs[j].pc \in {"steps", "views", "close"}

\* the state of the jobs: each holds a browser of its own, which is open,
\* and artifacts of its own, and a request that has not arrived yet can
\* arrive
JobsApart ==
    /\ \A j, k \in DOMAIN jobs :
          (j # k /\ jobs[j].browser # NoBrowser) =>
              jobs[j].browser # jobs[k].browser
    /\ \A j \in DOMAIN jobs :
          /\ HoldsBrowser(j) => jobs[j].browser \in browsers.open
          /\ \A i \in 1..Len(jobs[j].screenshots) : jobs[j].screenshots[i][1] = j
          /\ jobs[j].response = "success" => jobs[j].returned = jobs[j].screenshots
    /\ Len(jobs) < MaxJobs => ENABLED Submit(Len(jobs) + 1)

\* a step changes the locals of one job at most, and closes no browser
\* that another job holds
OneJobActs ==
    /\ \A j, k \in DOMAIN jobs :
          (j # k /\ jobs'[j] # jobs[j]) => jobs'[k] = jobs[k]
    /\ \A k \in DOMAIN jobs :
          (jobs'[k] = jobs[k] /\ jobs[k].browser \in browsers.open) =>
              jobs[k].browser \in browsers'.open

(* C19: requests served at the same time are independent: each has its    *)
(* own browser and its own artifact list, a new request is accepted       *)
(* whatever the number of running ones, and the failure or the close of   *)
(* one job changes nothing of another job.                                *)
C19_JobsIndependent == []JobsApart /\ [][OneJobActs]_vars

C19_Witness ==
    /\ Len(jobs) = 2
    /\ jobs[1].response = "error"
    /\ jobs[1].browser # NoBrowser
    /\ jobs[1].browser \notin browsers.open
    /\ jobs[2].pc = "views"
    /\ Len(jobs[2].screenshots) = 1
    /\ jobs[2].browser \in browsers.open

----------------------------------------------------------------------------
\* selectView is being applied
Selecting == DOMAIN args = {"page", "viewName"}

\* the count of the loop and what it has returned
AttemptsWithinBudget ==
    Selecting =>
        /\ result.attempts <= 3
        /\ result.failures <= result.attempts
        /\ result.returned \in {"pending", "true", "false"}
        /\ result.returned = "true" =>
              result.last.ok /\ result.failures = result.attempts - 1
        /\ result.returned = "false" =>
              result.attempts = 3 /\ result.failures = 3
        /\ result.returned = "pending" =>
              result.attempts < 3 /\ result.failures = result.attempts

\* nothing is attempted once selectView has returned
NoAttemptAfterReturn ==
    (Selecting /\ result.returned # "pending") => result' = result

(* C22: selectView makes at most 3 attempts: it returns true at the first *)
(* attempt that succeeds and makes no further attempt, returns false only *)
(* after 3 failed attempts, and whatever fails inside an attempt makes    *)
(* that attempt a failed one and is not thrown to the caller.             *)
C22_AtMostThreeAttempts == []AttemptsWithinBudget /\ [][NoAttemptAfterReturn]_vars

C22_Witness ==
    /\ Selecting
    /\ result.returned = "true"
    /\ result.attempts = 3
    /\ ~result.clean

C24_CommitsOnlyAfterOptionCheck ==
    (Selecting /\ result.attempts > 0 /\ result.last.committed # 0) =>
        /\ result.last.checked
        /\ IsViewDropdown(args.page[result.last.committed].options)
        /\ \A i \in result.last.dismissed : ~IsViewDropdown(args.page[i].options)

\* the view a text names: both words, one of them, or neither
ViewNamed(text) ==
    LET indoor == Includes(text, << "Indoor" >>)
        outdoor == Includes(text, << "Outdoor" >>)
    IN  IF indoor /\ outdoor THEN "OUTDOOR_INDOOR"
        ELSE IF indoor THEN "INDOOR"
        ELSE IF outdoor THEN "OUTDOOR"
        ELSE "none"

(* C25: whenever selectView(viewName) returns true, the option it clicked *)
(* is the option of the requested view and not of another view, for every *)
(* option list the dropdown may render.                                   *)
C25_ClicksRequestedView ==
    (Selecting /\ result.returned = "true") =>
        ViewNamed(result.last.clicked) = ViewNamed(args.viewName)

(* C26: if some visible dropdown of the page opens and offers the         *)
(* requested view, and nothing throws, selectView does not return false,  *)
(* whatever other dropdowns the page has and whatever their values are.   *)
C26_FindsOfferedView ==
    (/\ Selecting
     /\ result.clean
     /\ \E i \in 1..Len(args.page) :
           /\ args.page[i].visible
           /\ args.page[i].opens
           /\ \E k \in 1..Len(args.page[i].options) :
                 Includes(args.page[i].options[k], args.viewName))
    => result.returned # "false"

----------------------------------------------------------------------------
(* C27: within an attempt at opening a panel the three locating methods   *)
(* are tried one after the other: whenever a method does not open the     *)
(* panel, also when it finds no element, the next is tried, so that an    *)
(* attempt fails only after all three have been tried.                    *)
C27_AllMethodsTried ==
    DOMAIN args = {"panel"} =>
        \A i \in 1..Len(result.log) :
            result.log[i].ended # "opens" => result.log[i].tried = << 1, 2, 3 >>

----------------------------------------------------------------------------
\* the run has ended because a required panel could not be opened
PanelExhausted(name) ==
    /\ failure = "step"
    /\ \E i \in 1..Len(steps) :
          /\ steps[i].op = name
          /\ \A j \in (i + 1)..Len(steps) : steps[j].op = "close"

----------------------------------------------------------------------------
\* the turns of the loop taken in a run
TurnsOf(run) == SelectSeq(result.log, LAMBDA e : e.run = run)

\* every control was found and every click toggled its checkbox
RunWentWell(run) ==
    /\ Len(TurnsOf(run)) = Len(allCarriers)
    /\ \A i \in 1..Len(result.log) :
          result.log[i].run = run =>
              /\ result.log[i].found
              /\ result.log[i].clicked => result.log[i].toggled

(* C29: configureCarriers clicks a carrier's control only when the        *)
(* checkbox's state differs from the requested one; no carrier is clicked *)
(* more than once in a run; and a second run directly after a first one   *)
(* in which every control was found and every click toggled clicks        *)
(* nothing.                                                               *)
C29_ClicksOnlyWhenStateDiffers ==
    DOMAIN args = {"carriersToSelect", "controls"} =>
        /\ \A i \in 1..Len(result.log) :
              result.log[i].clicked => result.log[i].before # result.log[i].should
        /\ \A i \in 1..Len(result.log), j \in 1..Len(result.log) :
              (/\ result.log[i].clicked
               /\ result.log[j].clicked
               /\ result.log[i].run = result.log[j].run
               /\ result.log[i].userName = result.log[j].userName) => i = j
        /\ RunWentWell(1) =>
              \A i \in 1..Len(result.log) :
                  result.log[i].run = 2 => ~result.log[i].clicked

(* C30: after a run of configureCarriers in which every carrier control   *)
(* was found and every click toggled its checkbox, each of AT&T, Verizon  *)
(* and T-Mobile is checked exactly when it is in the requested list,      *)
(* whatever was checked before and whatever subset was requested.         *)
C30_CheckedIffRequested ==
    (/\ DOMAIN args = {"carriersToSelect", "controls"}
     /\ Len(result.log) = Len(allCarriers)
     /\ RunWentWell(1))
    => \A c \in Carriers : result.checked[c] <=> c \in args.carriersToSelect

----------------------------------------------------------------------------
----------------------------------------------------------------------------
\* zoom clicks made before step i of the run, when every zoom succeeds: each
\* prepareForScreenshot clicks the zoom button ZoomClicks times
ZoomClicksBefore(i) ==
    ZoomClicks * Cardinality({j \in 1..(i - 1) : steps[j].op = "prepare"})

(* C32: every artifact of a job is captured after the same number of zoom *)
(* clicks, 4, whatever views are requested and whichever are selected.    *)
C32_SameZoomForEveryArtifact ==
    \A i \in 1..Len(steps) :
        steps[i].op = "takeScreenshot" => ZoomClicksBefore(i) = ZoomClicks

----------------------------------------------------------------------------
(* C33: every view selection happens with the sidebar expanded and every  *)
(* capture with the sidebar collapsed, and in the coverage handlers the   *)
(* flag sidebarCollapsed equals the state of the sidebar, also when a     *)
(* collapse or expand click fails.                                        *)
C33_FlagMatchesSidebar ==
    DOMAIN args = {"handler", "views"} =>
        /\ \A i \in 1..Len(result.log) :
              /\ result.log[i].op = "selectView" => ~result.log[i].collapsed
              /\ result.log[i].op = "takeScreenshot" => result.log[i].collapsed
        /\ args.handler = "coverage" =>
              result.sidebarCollapsed = result.collapsed

----------------------------------------------------------------------------
(* C34: for the combined view selectView is called for at most 6 name     *)
(* variations, no variation is tried after one that succeeded, and none   *)
(* is tried after one that failed because no dropdown could be opened.    *)
C34_NameVariationsBounded ==
    DOMAIN args = {"page", "possibleNames"} =>
        /\ Len(result.tried) <= PossibleNames
        /\ \A i \in 1..(Len(result.tried) - 1) :
              /\ ~result.tried[i].ok
              /\ ~result.tried[i].stuck

----------------------------------------------------------------------------
(* C35: when the terminal response of a request has been sent, no browser *)
(* launched for it is still open (unless a close call itself threw),      *)
(* also when the browser was launched and creating the context, the init  *)
(* script or the page failed.                                             *)
C35_NoBrowserLeftOpen ==
    (Terminal /\ closeThrows = 0) => openSessions = 0

----------------------------------------------------------------------------
\* what has been sent as the terminal response so far
TerminalResponses == IF IsStream(endpoint) THEN ended ELSE Len(responses)

\* at most one terminal response, of the kind of the handler, and exactly
\* one when the handler has returned
OneTerminalResponse ==
    /\ TerminalResponses <= 1
    /\ IsStream(endpoint) => responses = << >>
    /\ ~IsStream(endpoint) => ended = 0 /\ written = << >>
    /\ Terminal => TerminalResponses = 1

\* nothing is written or sent once the terminal response is out
SilentAfterResponse ==
    TerminalResponses >= 1 =>
        /\ written' = written
        /\ responses' = responses
        /\ ended' = ended

(* C36: every request gets exactly one terminal response on every path: a *)
(* synchronous handler sends one JSON response, a streaming handler ends  *)
(* the stream once, and no event is written after the stream was ended.   *)
C36_ExactlyOneTerminalResponse ==
    []OneTerminalResponse /\ [][SilentAfterResponse]_vars

C36_Witness ==
    /\ Terminal
    /\ endpoint = "rom_stream"
    /\ failure = "step"
    /\ ended = 1
    /\ Len(written) >= 2
    /\ written[Len(written)].final

----------------------------------------------------------------------------
(* C37: when every awaited operation returns or times out, every request  *)
(* reaches its terminal response: the retry loops (3 attempts), the       *)
(* candidate loops and the 6 name variations are all bounded.             *)
C37_EveryJobTerminates == <>Terminal

C37_Witness ==
    /\ Terminal
    /\ Cardinality({i \in 1..Len(steps) :
                       /\ steps[i].op = "selectView"
                       /\ steps[i].view = "OUTDOOR_INDOOR"}) = PossibleNames
    /\ attempt = 1

----------------------------------------------------------------------------
\* the filename says that the artifact is the full-viewport fallback
MarkedFullpage(fn) == \E i \in 1..Len(fn) : fn[i] = "fullpage"

(* C38: the first capture of takeScreenshot targets the scrollable map     *)
(* region; a clipped full-viewport capture follows exactly when the first  *)
(* one failed; an artifact of the fallback is marked in its filename; and  *)
(* takeScreenshot throws only when both captures failed.                   *)
C38_PrimaryThenFallback ==
    (DOMAIN args = {"prefix", "viewType", "sanitizedAddress", "timestamp"}
     /\ result.outcome # "pending") =>
        LET c == result.captures
        IN  /\ c[1].target = "region"
            /\ ~c[1].ok <=> (Len(c) = 2 /\ c[2].target = "clip")
            /\ result.outcome = "artifact" =>
                  (MarkedFullpage(result.filename) <=> ~c[1].ok)
            /\ result.outcome = "throws" =>
                  (Len(c) = 2 /\ ~c[1].ok /\ ~c[2].ok)

----------------------------------------------------------------------------
\* address is a string with a character that is not white space
AddressWellFormed ==
    /\ args.address.type = "string"
    /\ \E i \in 1..Len(args.address.text) : args.address.text[i] # " "

\* carriers is a non-empty array of AT&T, Verizon and T-Mobile
CarriersWellFormed ==
    /\ args.carriers.type = "array"
    /\ Len(args.carriers.items) > 0
    /\ \A i \in 1..Len(args.carriers.items) :
          args.carriers.items[i] \in {"AT&T", "Verizon", "T-Mobile"}

(* C39: validateRequest returns isValid true exactly when address is a     *)
(* string that is not empty after trimming and carriers is a non-empty     *)
(* array of known carriers; isValid is (errors is empty); and when both    *)
(* fields are invalid both errors are reported, the address one first.     *)
C39_ValidIffWellFormed ==
    (DOMAIN args = {"address", "carriers"} /\ result.called) =>
        /\ result.isValid <=> (AddressWellFormed /\ CarriersWellFormed)
        /\ result.isValid <=> result.errors = << >>
        /\ Len(result.errors) =
              (IF AddressWellFormed THEN 0 ELSE 1)
              + (IF CarriersWellFormed THEN 0 ELSE 1)
        /\ (~AddressWellFormed /\ ~CarriersWellFormed) =>
              result.errors[1] = "Address is required and must be a non-empty string"

C39_Witness ==
    /\ DOMAIN args = {"address", "carriers"}
    /\ result.called
    /\ args.address = JsString(<< " ", " " >>)
    /\ args.carriers = JsArray(<< "AT&T", "Sprint" >>)
    /\ Len(result.errors) = 2

----------------------------------------------------------------------------
(* Wait tiers *)

WaitCalled(name) ==
    /\ DOMAIN args = {"wait", "min", "max", "baseMs"}
    /\ args.wait = name
    /\ result.called

(* C40: randomDelay(min, max) returns an integer d with min <= d <= max    *)
(* for integers min <= max; so a short wait lies in 200..400, a medium     *)
(* wait in 500..900 and a long wait in 1200..2000, every short wait is     *)
(* shorter than every medium wait and every medium wait shorter than every *)
(* long wait; and humanWait never waits less than 80 ms.                   *)
C40_WaitTiersOrdered ==
    /\ WaitCalled("randomDelay") =>
          /\ result.waited[1] \in Int
          /\ args.min <= result.waited[1]
          /\ result.waited[1] <= args.max
    /\ WaitCalled("tiers") =>
          /\ result.waited[1] \in 200..400
          /\ result.waited[2] \in 500..900
          /\ result.waited[3] \in 1200..2000
          /\ result.waited[1] < result.waited[2]
          /\ result.waited[2] < result.waited[3]
    /\ WaitCalled("humanWait") => result.waited[1] >= 80

\* the longest short wait next to the shortest medium wait, and the longest
\* long wait
C40_Witness ==
    /\ WaitCalled("tiers")
    /\ result.waited = << 400, 500, 2000 >>

====
